---- MODULE Spec2Model ----
(***************************************************************************)
(* State-machine model of addon_system: the AddonSystem registry with its  *)
(* AddonSystemStorage dependency cache, and the Addon / ModuleInterface    *)
(* load, reload and unload machinery.                                      *)
(***************************************************************************)
EXTENDS Integers, Sequences, FiniteSets, TLC

\* ---------------------------------------------------------------- bounds
\* number of module objects the interpreter may create in one behaviour
MaxHandle == 3
\* number of references to a module object its caller may hold
MaxExt == 1

\* the addon directories under the system root, in iteration order
Paths == {1, 2}

\* a directory outside the system root that comes and goes; Addon(path) is
\* called for it and for the directories of the root
ExtraPath == 3

CtorPaths == Paths \cup {ExtraPath}

\* ------------------------------------------------------- metadata values
\* metadata ids found in the addon.json files
AllIds == {"x", "y"}

\* an id no addon.json declares
MissingId == "zz"

\* dependency specifiers and the dependency lists an addon.json may hold
DepNames == {"a", "b"}

\* the libraries that come and go while the program runs
Volatile == {"b"}

DepLists == {<<"a">>, <<"a", "b">>}

\* optional boolean arguments (None / True / False)
None == [some |-> FALSE, val |-> FALSE]

Some(b) == [some |-> TRUE, val |-> b]

VARIABLES
    depends,        \* path -> addon.metadata.depends as the metadata reads it
    meta_id,        \* path -> addon.metadata.id
    installed,      \* libraries the lib_manager reports as installed
    map,            \* AddonSystemStorage._map["addons"]: id -> stored record
    a_system,       \* set of paths whose Addon has _system installed
    last,           \* observation of the last call: arguments, result, effects
    reverify,       \* path -> depends changed and not checked since
    a_module,       \* path -> Addon._module (0: None)
    sys_modules,    \* sys.modules: unit name -> module object (0: absent)
    parent_attr,    \* path -> the root package's attribute named after the addon
    helper_of,      \* entry module object -> the helper module its globals hold
    next_handle,    \* module objects created so far
    ifaces,         \* the ModuleInterface objects created so far
    a_interface,    \* path -> Addon._interface (0: None)
    ledger,         \* interface._modules: helper module -> list of addons
    by_param,       \* Addon._by_param: the paths that have an Addon instance
    valid,          \* path -> the directory passes Addon's validation now
    m_file,         \* the text of addon.json, as far as json.load tells it apart
    m_data,         \* AddonMeta._data (NoData: no AddonMeta instance yet)
    m_edits,        \* how many times the file was edited by hand
    meta_attrs,     \* path -> name, authors and description of addon.metadata
    refs_builtin,   \* the paths whose entry unit imports a built-in module
    back_refs,      \* the paths whose sub-unit imports its parent package
    namespace,      \* path -> AddonNamespace._values: name -> value ("": unset)
    mod_attrs,      \* entry module object -> the namespace values set on it
    builtins,       \* the builtins module: name -> value ("": no such name)
    entry_kind      \* path -> what the root directory holds under that name

regvars == <<depends, meta_id, installed, map, a_system, reverify>>

\* the metadata file of one addon and its AddonMeta
metavars == <<m_file, m_data, m_edits, meta_attrs>>

\* the code of the addons, the namespaces, the builtins and the directory
envvars == <<refs_builtin, back_refs, namespace, mod_attrs, builtins, entry_kind>>

ctorvars == <<by_param, valid, metavars, envvars>>

loadvars == <<a_module, sys_modules, parent_attr, helper_of, next_handle,
              ifaces, a_interface, ledger, by_param, valid, metavars, envvars>>

vars == <<depends, meta_id, installed, map, a_system, last, reverify,
          a_module, sys_modules, parent_attr, helper_of, next_handle,
          ifaces, a_interface, ledger, by_param, valid,
          m_file, m_data, m_edits, meta_attrs,
          refs_builtin, back_refs, namespace, mod_attrs, builtins, entry_kind>>

\* ------------------------------------------------------------ pure parts

RECURSIVE hash_string_tuple(_)
\* sha256 over the concatenated encodings; the digest is taken as injective
hash_string_tuple(t) ==
    IF t = << >> THEN "" ELSE Head(t) \o hash_string_tuple(Tail(t))

depends_hash(p) == hash_string_tuple(depends[p])

\* BaseLibManager.check_dependencies: every specifier is installed
lib_check(deps) == \A i \in 1..Len(deps) : deps[i] \in installed

\* the libraries of deps that are in got, in the order of deps
Listed(deps, got) ==
    LET F[n \in 0..Len(deps)] ==
            IF n = 0 THEN << >>
            ELSE IF deps[n] \in got THEN Append(F[n - 1], deps[n]) ELSE F[n - 1]
    IN  F[Len(deps)]

\* BaseLibManager.install_libraries: the outcomes it may have (any of the
\* listed libraries that are missing may fail to install): the installed
\* set it leaves and the sequence of newly installed libraries it returns
install_libraries(deps) ==
    {[installed |-> installed \cup got, ret |-> Listed(deps, got)] :
        got \in SUBSET ({deps[i] : i \in 1..Len(deps)} \ installed)}

\* ------------------------------------------------------ AddonSystemStorage

NoEntry == [present |-> FALSE, enabled |-> FALSE, satisfied |-> FALSE, hash |-> ""]

StoredAddon(enabled, satisfied, hash) ==
    [present |-> TRUE, enabled |-> enabled, satisfied |-> satisfied, hash |-> hash]

get_stored_addon(m, id) == IF id \in DOMAIN m THEN m[id] ELSE NoEntry

is_valid(entry, p) == depends_hash(p) = entry.hash

\* an execution context threaded through one call: the cache map, the ids
\* whose record each save() call wrote, in order, and the paths whose depends
\* went to the lib_manager
Ctx0 == [map |-> map, writes |-> << >>, checks |-> {}]

\* save_addon without its write-skip: every call writes the record
save_addon_always(ctx, p, enabled, dependency_check_result) ==
    LET id == meta_id[p]
        stored == get_stored_addon(ctx.map, id)
        dcr == IF stored.present /\ ~dependency_check_result.some
               THEN Some(stored.satisfied)
               ELSE dependency_check_result
        en == IF enabled.some THEN enabled.val ELSE FALSE
        res == IF dcr.some THEN dcr.val ELSE lib_check(depends[p])
    IN  [map |-> [ctx.map EXCEPT ![id] = StoredAddon(en, res, depends_hash(p))],
         writes |-> Append(ctx.writes, id),
         checks |-> IF dcr.some THEN ctx.checks ELSE ctx.checks \cup {p}]

save_addon(ctx, p, enabled, dependency_check_result) ==
    LET id == meta_id[p]
        stored == get_stored_addon(ctx.map, id)
        dcr == IF stored.present /\ ~dependency_check_result.some
               THEN Some(stored.satisfied)
               ELSE dependency_check_result
        skip == /\ stored.present
                /\ dcr.val = stored.satisfied
                /\ (~enabled.some \/ enabled.val = stored.enabled)
                /\ is_valid(stored, p)
        en == IF enabled.some THEN enabled.val ELSE FALSE
        res == IF dcr.some THEN dcr.val ELSE lib_check(depends[p])
    IN  IF skip THEN ctx
        ELSE [map |-> [ctx.map EXCEPT ![id] = StoredAddon(en, res, depends_hash(p))],
              writes |-> Append(ctx.writes, id),
              checks |-> IF dcr.some THEN ctx.checks
                         ELSE ctx.checks \cup {p}]

\* --------------------------------------------------------------- AddonSystem

\* errors.py: the exception classes and their direct base classes
Bases ==
    [AddonSystemException |-> "BaseException", AddonMetaInvalid |-> "AddonSystemException",
     AddonInvalid |-> "AddonSystemException", AddonImportError |-> "AddonInvalid",
     DuplicatedAddon |-> "AddonInvalid"]

\* isinstance(e, base) for an exception e of class kind
RECURSIVE IsA(_, _)
IsA(kind, base) ==
    \/ kind = base
    \/ kind \in DOMAIN Bases /\ IsA(Bases[kind], base)

\* what leaves the try block of iter_filesystem_addons when kind is raised
\* inside it: "except (AddonInvalid, AddonMetaInvalid)" re-raises
wrap_invalid(kind) ==
    IF IsA(kind, "AddonInvalid") \/ IsA(kind, "AddonMetaInvalid")
    THEN "AddonSystemException"
    ELSE kind

\* what the root directory may hold under a name: a valid addon directory, a
\* plain file, a directory Addon(path) refuses, a directory whose addon.json
\* the metadata validation refuses
EntryKinds == {"addon", "file", "invalid", "badmeta"}

\* what iter_filesystem_addons raises at an entry of kind k ("": nothing)
entry_error(k) ==
    IF k = "file" THEN "AddonSystemException"
    ELSE IF k = "invalid" THEN wrap_invalid("AddonInvalid")
    ELSE IF k = "badmeta" THEN wrap_invalid("AddonMetaInvalid")
    ELSE ""

RECURSIVE iter_filesystem_addons_skipping(_, _, _, _, _)
\* iter_filesystem_addons that passes over an entry it cannot use
iter_filesystem_addons_skipping(ctx, sys, i, ids, stop) ==
    IF i \notin Paths
    THEN [ctx |-> ctx, sys |-> sys, found |-> 0, err |-> "", yielded |-> {}]
    ELSE IF entry_error(entry_kind[i]) # "" \/ meta_id[i] \in ids
    THEN iter_filesystem_addons_skipping(ctx, sys, i + 1, ids, stop)
    ELSE LET ctx1 == save_addon(ctx, i, None, None)
             sys1 == sys \cup {i}
             rest == iter_filesystem_addons_skipping(ctx1, sys1, i + 1,
                                                     ids \cup {meta_id[i]}, stop)
         IN  IF meta_id[i] = stop
             THEN [ctx |-> ctx1, sys |-> sys1, found |-> i, err |-> "", yielded |-> {i}]
             ELSE [rest EXCEPT !.yielded = @ \cup {i}]

RECURSIVE iter_filesystem_addons(_, _, _, _, _)
\* The generator run from directory position i on.  ids: ids of the addons
\* the consumer has taken; stop: the id at which the consumer stops pulling
\* (MissingId-like values exhaust the generator); yielded: the paths whose
\* Addon was handed to the consumer.
iter_filesystem_addons(ctx, sys, i, ids, stop) ==
    IF i \notin Paths
    THEN [ctx |-> ctx, sys |-> sys, found |-> 0, err |-> "", yielded |-> {}]
    ELSE IF entry_error(entry_kind[i]) # ""
    THEN [ctx |-> ctx, sys |-> sys, found |-> 0, err |-> entry_error(entry_kind[i]),
          yielded |-> {}]
    ELSE IF meta_id[i] \in ids
    THEN [ctx |-> ctx, sys |-> sys, found |-> 0, err |-> wrap_invalid("DuplicatedAddon"),
          yielded |-> {}]
    ELSE LET ctx1 == save_addon(ctx, i, None, None)
             sys1 == sys \cup {i}
             rest == iter_filesystem_addons(ctx1, sys1, i + 1, ids \cup {meta_id[i]}, stop)
         IN  IF meta_id[i] = stop
             THEN [ctx |-> ctx1, sys |-> sys1, found |-> i, err |-> "", yielded |-> {i}]
             ELSE [rest EXCEPT !.yielded = @ \cup {i}]

get_addon_by_id(ctx, sys, id) == iter_filesystem_addons(ctx, sys, 1, {}, id)

\* the ways a caller names an addon: the Addon object of a path, or an id
AddonArgs ==
    [byId : {FALSE}, p : Paths, id : {""}] \cup
    [byId : {TRUE}, p : {0}, id : AllIds \cup {MissingId}]

get_addon(ctx, sys, x) ==
    IF ~x.byId
    THEN [ctx |-> ctx, sys |-> sys, found |-> x.p, err |-> "", yielded |-> {}]
    ELSE LET r == get_addon_by_id(ctx, sys, x.id)
         IN  IF r.err = "" /\ r.found = 0
             THEN [r EXCEPT !.err = "AddonInvalid"]
             ELSE r

\* check_dependencies with force_check ignored when a valid record exists
check_dependencies_unforced(ctx, p, use_cache, force_check) ==
    LET stored == get_stored_addon(ctx.map, meta_id[p])
        result == lib_check(depends[p])
        called == [ctx EXCEPT !.checks = @ \cup {p}]
    IN  IF use_cache \/ force_check
        THEN IF stored.present /\ is_valid(stored, p)
             THEN [ctx |-> ctx, ret |-> stored.satisfied]
             ELSE [ctx |-> save_addon(called, p, None, Some(result)), ret |-> result]
        ELSE [ctx |-> called, ret |-> result]

\* check_dependencies that returns a fresh verdict without recording it
check_dependencies_unsaved(ctx, p, use_cache, force_check) ==
    LET stored == get_stored_addon(ctx.map, meta_id[p])
        result == lib_check(depends[p])
        called == [ctx EXCEPT !.checks = @ \cup {p}]
    IN  IF use_cache \/ force_check
        THEN IF ~force_check /\ stored.present /\ is_valid(stored, p)
             THEN [ctx |-> ctx, ret |-> stored.satisfied]
             ELSE [ctx |-> called, ret |-> result]
        ELSE [ctx |-> called, ret |-> result]

\* check_dependencies after get_addon has resolved the addon to path p
check_dependencies(ctx, p, use_cache, force_check) ==
    LET stored == get_stored_addon(ctx.map, meta_id[p])
        result == lib_check(depends[p])
        called == [ctx EXCEPT !.checks = @ \cup {p}]
    IN  IF use_cache \/ force_check
        THEN IF ~force_check /\ stored.present /\ is_valid(stored, p)
             THEN [ctx |-> ctx, ret |-> stored.satisfied]
             ELSE [ctx |-> save_addon(called, p, None, Some(result)), ret |-> result]
        ELSE [ctx |-> called, ret |-> result]

\* ------------------------------------------------------------ observations

\* the path an addon argument denotes: the Addon's own path, or the first
\* directory whose metadata declares the id (0 when there is none)
Target(x) ==
    IF ~x.byId THEN x.p
    ELSE IF \E q \in Paths : meta_id[q] = x.id
    THEN CHOOSE q \in Paths : meta_id[q] = x.id /\ \A r \in Paths : meta_id[r] = x.id => q <= r
    ELSE 0

Call(op, x) ==
    [op |-> op, byId |-> x.byId, p |-> Target(x), b |-> FALSE,
     use_cache |-> FALSE, force |-> FALSE, ret |-> FALSE, err |-> "",
     writes |-> << >>, checks |-> {}, pre |-> "", chained |-> FALSE,
     i |-> 0, handle |-> 0, executed |-> << >>, refs |-> 0,
     reload |-> FALSE, checked |-> FALSE, ok |-> FALSE, loaded_before |-> FALSE,
     ext |-> 0, on_unload |-> FALSE, on_load |-> 0, yielded |-> {}, found |-> 0,
     inits |-> 0, cls |-> "", seq |-> << >>, wrote |-> FALSE,
     crit |-> << >>, inject |-> FALSE]

NoArg == [byId |-> FALSE, p |-> 0, id |-> ""]

\* the stored record of path p (NoEntry for the unresolved path 0)
EntryOf(m, p) == IF p \in Paths THEN get_stored_addon(m, meta_id[p]) ELSE NoEntry

\* how the cache stood for path p: no record, a record under another hash,
\* or the verdict recorded under the hash of the current depends
CacheState(m, p) ==
    IF ~EntryOf(m, p).present THEN "absent"
    ELSE IF ~is_valid(EntryOf(m, p), p) THEN "stale"
    ELSE IF EntryOf(m, p).satisfied THEN "satisfied" ELSE "unsatisfied"

\* the part of an observation every registry call fills in the same way
Observe(op, x, g, ctx, err) ==
    [Call(op, x) EXCEPT !.err = err, !.writes = ctx.writes,
                        !.checks = ctx.checks,
                        !.pre = IF Target(x) \in Paths THEN CacheState(map, Target(x)) ELSE ""]

\* reverify: a path stops waiting once the checker saw its current list
Reverified(ctx) ==
    [q \in Paths |-> reverify[q] /\ q \notin ctx.checks]

\* --------------------------------------------- AddonSystem calls as results

set_addon_enabled(x, enabled) ==
    LET g == get_addon(Ctx0, a_system, x)
    IN  IF g.err # ""
        THEN [g |-> g, ctx |-> g.ctx, err |-> g.err, ret |-> FALSE]
        ELSE [g |-> g, ctx |-> save_addon(g.ctx, g.found, Some(enabled), None),
              err |-> "", ret |-> FALSE]

\* get_addon_enabled reading the wrong field of the stored record
get_addon_enabled_satisfied(x) ==
    LET g == get_addon(Ctx0, a_system, x)
        stored == EntryOf(g.ctx.map, g.found)
    IN  IF g.err # ""
        THEN [g |-> g, ctx |-> g.ctx, err |-> g.err, ret |-> FALSE]
        ELSE IF ~stored.present
        THEN [g |-> g, ctx |-> g.ctx, err |-> "AttributeError", ret |-> FALSE]
        ELSE [g |-> g, ctx |-> g.ctx, err |-> "", ret |-> stored.satisfied]

get_addon_enabled(x) ==
    LET g == get_addon(Ctx0, a_system, x)
        stored == EntryOf(g.ctx.map, g.found)
    IN  IF g.err # ""
        THEN [g |-> g, ctx |-> g.ctx, err |-> g.err, ret |-> FALSE]
        ELSE IF ~stored.present
        THEN [g |-> g, ctx |-> g.ctx, err |-> "AttributeError", ret |-> FALSE]
        ELSE [g |-> g, ctx |-> g.ctx, err |-> "", ret |-> stored.enabled]

enable_addon(x) == set_addon_enabled(x, TRUE)

disable_addon(x) == set_addon_enabled(x, TRUE)

system_check_dependencies(x, use_cache, force_check) ==
    LET g == get_addon(Ctx0, a_system, x)
        c == check_dependencies(g.ctx, g.found, use_cache, force_check)
    IN  IF g.err # ""
        THEN [g |-> g, ctx |-> g.ctx, err |-> g.err, ret |-> FALSE]
        ELSE [g |-> g, ctx |-> c.ctx, err |-> "", ret |-> c.ret]

\* satisfy_dependencies that records what the lib_manager says after the
\* installation instead of True
satisfy_dependencies_verified(x, out) ==
    LET g == get_addon(Ctx0, a_system, x)
        deps == depends[g.found]
        now == \A i \in 1..Len(deps) : deps[i] \in out.installed
    IN  IF g.err # ""
        THEN [g |-> g, ctx |-> g.ctx, err |-> g.err, ret |-> FALSE, seq |-> << >>]
        ELSE [g |-> g, ctx |-> save_addon(g.ctx, g.found, None, Some(now)),
              err |-> "", ret |-> FALSE, seq |-> out.ret]

\* satisfy_dependencies when install_libraries has the outcome out: the
\* record is saved as satisfied and the installed sequence is returned (seq)
satisfy_dependencies(x, out) ==
    LET g == get_addon(Ctx0, a_system, x)
    IN  IF g.err # ""
        THEN [g |-> g, ctx |-> g.ctx, err |-> g.err, ret |-> FALSE, seq |-> << >>]
        ELSE [g |-> g, ctx |-> save_addon(g.ctx, g.found, None, Some(TRUE)),
              err |-> "", ret |-> FALSE, seq |-> out.ret]

\* ---------------------------------------------------------- code loading

Handles == 1..MaxHandle

\* how many times on_load may list the helper module in what it returns
Returned == {0, 1, 2}

\* the ModuleInterface objects a behaviour may create, and their classes
IfaceIds == {1, 2}

Classes == {"ModuleInterface", "MyInterface"}

NoIface == [made |-> FALSE, addon |-> 0, cls |-> "", lm |-> FALSE,
            module |-> 0, used |-> << >>]

\* import paths: the entry unit of each addon (directories F and FB of the
\* root package r), the units the entry unit imports from its own directory,
\* and a helper module both addons import from outside
module_import_path(p) == IF p = 1 THEN "r.F" ELSE "r.FB"

SubUnits(p) == IF p = 1 THEN {"r.F.s"} ELSE {}

Helper == "h"

Units == {module_import_path(p) : p \in Paths} \cup UNION {SubUnits(p) : p \in Paths}
         \cup {Helper}

\* str.startswith over the unit names
StartsWith(name, prefix) == \E rest \in {"", "B", ".s", ".F", ".FB", ".F.s"} : name = prefix \o rest

\* unload_module dropping the children of the name only
unload_module_children(sys, name) ==
    [u \in Units |-> IF StartsWith(u, name \o ".") THEN 0 ELSE sys[u]]

\* interface.unload_module: drop every sys.modules key the name prefixes
unload_module(sys, name) == [u \in Units |-> IF StartsWith(u, name) THEN 0 ELSE sys[u]]

\* the loader state threaded through one call
Loader0 == [sys |-> sys_modules, pattr |-> parent_attr, hof |-> helper_of,
            nh |-> next_handle, executed |-> << >>]

\* utils.get_submodules: the entry unit first, then the units of its directory
get_submodules(p) ==
    IF SubUnits(p) = {} THEN <<module_import_path(p)>>
    ELSE <<module_import_path(p), CHOOSE u \in SubUnits(p) : TRUE>>

\* a set of unit names as a sequence
RECURSIVE SeqOf(_)
SeqOf(S) == IF S = {} THEN << >> ELSE LET u == CHOOSE v \in S : TRUE IN <<u>> \o SeqOf(S \ {u})

\* importlib.import_module(addon.module_import_path): the cached module, or a
\* new module object g; executing the entry unit imports its sub-units and the
\* helper when sys.modules lacks them, and binds the root package attribute
import_module(ld, p) ==
    LET name == module_import_path(p)
        g == ld.nh + 1
        fresh == {u \in SubUnits(p) \cup {Helper} : ld.sys[u] = 0}
        sys1 == [u \in Units |-> IF u = name \/ u \in fresh THEN g ELSE ld.sys[u]]
    IN  IF ld.sys[name] # 0
        THEN [ld |-> ld, module |-> ld.sys[name], err |-> ""]
        ELSE [ld |-> [sys |-> sys1,
                      pattr |-> [ld.pattr EXCEPT ![p] = g],
                      hof |-> [k \in Handles |-> IF k = g THEN sys1[Helper] ELSE ld.hof[k]],
                      nh |-> g,
                      executed |-> ld.executed \o SeqOf(fresh) \o <<name>>],
              module |-> g, err |-> ""]

\* importlib.reload of the k-th unit of get_submodules(p) and the ones after
\* it: each must still be the object sys.modules holds; re-executing the
\* entry unit imports the helper again when sys.modules lacks it
RECURSIVE reload_from(_, _, _)
reload_from(ld, p, k) ==
    LET units == get_submodules(p)
        u == units[k]
        g == a_module[p]
        again == u = units[1] /\ ld.sys[Helper] = 0
        ld1 == [ld EXCEPT !.executed = @ \o <<u>>,
                          !.sys = IF again THEN [@ EXCEPT ![Helper] = ld.nh + 1] ELSE @,
                          !.nh = IF again THEN @ + 1 ELSE @,
                          !.hof = IF u = units[1]
                                  THEN [@ EXCEPT ![g] = IF again THEN ld.nh + 1 ELSE ld.sys[Helper]]
                                  ELSE @]
    IN  IF k > Len(units) THEN [ld |-> ld, module |-> 0, err |-> ""]
        ELSE IF ld.sys[u] # g THEN [ld |-> ld, module |-> 0, err |-> "ImportError"]
        ELSE reload_from(ld1, p, k + 1)

\* the depth of nested calls the interpreter allows
RecursionLimit == 3

\* the modules of the addon's directory that the globals of unit u hold: the
\* sub-units for the entry unit, the parent package for a sub-unit that
\* imports it
tree_values(p, u) ==
    IF u = module_import_path(p) THEN SubUnits(p)
    ELSE IF p \in back_refs THEN {module_import_path(p)}
    ELSE {}

\* the recursion of utils.get_submodules from unit u, entered at the given
\* depth: the error it ends with ("": it returns)
RECURSIVE submodules_walk(_, _, _)
submodules_walk(p, u, depth) ==
    IF depth > RecursionLimit THEN "RecursionError"
    ELSE IF \E v \in tree_values(p, u) : submodules_walk(p, v, depth + 1) # ""
    THEN "RecursionError"
    ELSE ""

\* utils.reload_addon_modules on a loaded addon; it returns None.
\* get_submodules reads __file__ of every module the entry unit's globals
\* hold, and a built-in module has none
reload_addon_modules(ld, p) ==
    IF p \in refs_builtin
    THEN [ld |-> ld, module |-> 0, err |-> "AttributeError"]
    ELSE IF submodules_walk(p, module_import_path(p), 1) # ""
    THEN [ld |-> ld, module |-> 0, err |-> submodules_walk(p, module_import_path(p), 1)]
    ELSE reload_from(ld, p, 1)

\* Addon._import
addon_import(ld, p, reload) ==
    IF reload /\ a_module[p] # 0
    THEN reload_addon_modules(ld, p)
    ELSE import_module(ld, p)

\* AbstractAddon.check_dependencies: through the system's cache when a system
\* is installed, else through the lib_manager passed in (lm: one was passed)
addon_check_dependencies(p, lm) ==
    IF ~lm /\ p \notin a_system
    THEN [ctx |-> Ctx0, ret |-> FALSE, err |-> "AddonSystemException"]
    ELSE IF p \in a_system
    THEN [ctx |-> check_dependencies(Ctx0, p, TRUE, FALSE).ctx,
          ret |-> check_dependencies(Ctx0, p, TRUE, FALSE).ret, err |-> ""]
    ELSE [ctx |-> [Ctx0 EXCEPT !.checks = {p}], ret |-> lib_check(depends[p]), err |-> ""]

\* the names a namespace may bind: one that builtins lacks, one it has
BindNames == {"app", "len"}

\* no value under a name (the built-in value is "builtin", a bound one "bound")
NoValue == ""

NoBindings == [n \in BindNames |-> NoValue]

\* the builtins module before anything is injected
Builtins0 == [n \in BindNames |-> IF n = "len" THEN "builtin" ELSE NoValue]

\* AddonNamespace.empty
namespace_empty(p) == \A n \in BindNames : namespace[p][n] = NoValue

\* utils.replace_builtins that leaves the names in place when the block ends
replace_builtins_kept(b, names) ==
    LET patched == [n \in BindNames |-> IF names[n] # NoValue THEN names[n] ELSE b[n]]
    IN  [during |-> patched, after |-> patched]

\* utils.replace_builtins(**names) around a block: the builtins inside the
\* block and after it
replace_builtins(b, names) ==
    LET given == {n \in BindNames : names[n] # NoValue}
        old_values == {n \in given : b[n] # NoValue}
        names_to_remove == given \ old_values
        patched == [n \in BindNames |-> IF n \in given THEN names[n] ELSE b[n]]
    IN  [during |-> patched,
         after |-> [n \in BindNames |->
                      IF n \in old_values THEN b[n]
                      ELSE IF n \in names_to_remove THEN NoValue
                      ELSE patched[n]]]

\* Addon.module importing whatever the dependency check answered
module_unchecked(p, lm, reload) ==
    LET c == addon_check_dependencies(p, lm)
        m == addon_import(Loader0, p, reload)
    IN  IF a_module[p] # 0 /\ ~reload
        THEN [ctx |-> Ctx0, ld |-> Loader0, module |-> a_module[p],
              ret |-> a_module[p], err |-> "", checked |-> FALSE, ok |-> FALSE]
        ELSE IF c.err # ""
        THEN [ctx |-> c.ctx, ld |-> Loader0, module |-> a_module[p], ret |-> 0,
              err |-> c.err, checked |-> FALSE, ok |-> FALSE]
        ELSE IF m.err # ""
        THEN [ctx |-> c.ctx, ld |-> m.ld, module |-> a_module[p], ret |-> 0,
              err |-> m.err, checked |-> TRUE, ok |-> c.ret]
        ELSE [ctx |-> c.ctx, ld |-> m.ld, module |-> m.module, ret |-> m.module,
              err |-> "", checked |-> TRUE, ok |-> c.ret]

\* Addon.module without the early return for an addon that is loaded
module_rechecking(p, lm, reload) ==
    LET c == addon_check_dependencies(p, lm)
        m == addon_import(Loader0, p, reload)
    IN  IF c.err # ""
        THEN [ctx |-> c.ctx, ld |-> Loader0, module |-> a_module[p], ret |-> 0,
              err |-> c.err, checked |-> FALSE, ok |-> FALSE]
        ELSE IF ~c.ret
        THEN [ctx |-> c.ctx, ld |-> Loader0, module |-> a_module[p], ret |-> 0,
              err |-> "AddonImportError", checked |-> TRUE, ok |-> FALSE]
        ELSE IF m.err # ""
        THEN [ctx |-> c.ctx, ld |-> m.ld, module |-> a_module[p], ret |-> 0,
              err |-> m.err, checked |-> TRUE, ok |-> TRUE]
        ELSE [ctx |-> c.ctx, ld |-> m.ld, module |-> m.module, ret |-> m.module,
              err |-> "", checked |-> TRUE, ok |-> TRUE]

\* Addon.module: [ctx, ld, module (the new Addon._module), ret, err]
module(p, lm, reload) ==
    LET c == addon_check_dependencies(p, lm)
        m == addon_import(Loader0, p, reload)
    IN  IF a_module[p] # 0 /\ ~reload
        THEN [ctx |-> Ctx0, ld |-> Loader0, module |-> a_module[p],
              ret |-> a_module[p], err |-> "", checked |-> FALSE, ok |-> FALSE]
        ELSE IF c.err # ""
        THEN [ctx |-> c.ctx, ld |-> Loader0, module |-> a_module[p], ret |-> 0,
              err |-> c.err, checked |-> FALSE, ok |-> FALSE]
        ELSE IF ~c.ret
        THEN [ctx |-> c.ctx, ld |-> Loader0, module |-> a_module[p], ret |-> 0,
              err |-> "AddonImportError", checked |-> TRUE, ok |-> FALSE]
        ELSE IF m.err # ""
        THEN [ctx |-> c.ctx, ld |-> m.ld, module |-> a_module[p], ret |-> 0,
              err |-> m.err, checked |-> TRUE, ok |-> TRUE]
        ELSE [ctx |-> c.ctx, ld |-> m.ld, module |-> m.module, ret |-> m.module,
              err |-> "", checked |-> TRUE, ok |-> TRUE]

\* sys.getrefcount(module) - 1 for the entry module object g of addon p while
\* the caller holds e references of its own
RefCount(p, g, e) ==
    (IF a_module[p] = g THEN 1 ELSE 0)
    + Cardinality({i \in IfaceIds : ifaces[i].made /\ ifaces[i].addon = p /\ ifaces[i].module = g})
    + (IF sys_modules[module_import_path(p)] = g THEN 1 ELSE 0)
    + (IF parent_attr[p] = g THEN 1 ELSE 0)
    + e

\* an object argument naming the Addon of path p
Obj(p) == [byId |-> FALSE, p |-> p, id |-> ""]

\* AbstractAddon.unload_module without its guard: the name is dropped from
\* sys.modules whether or not the addon holds a module
addon_unload_module_unguarded(p) ==
    [module |-> 0, sys |-> unload_module(sys_modules, module_import_path(p))]

\* AbstractAddon.unload_module: [module (the new Addon._module), sys]
addon_unload_module(p) ==
    IF a_module[p] = 0
    THEN [module |-> 0, sys |-> sys_modules]
    ELSE [module |-> 0, sys |-> unload_module(sys_modules, module_import_path(p))]

\* list.remove: the list without the first addon equal to p (equal ids)
RECURSIVE list_remove(_, _)
list_remove(addons, p) ==
    IF addons = << >> THEN << >>
    ELSE IF meta_id[Head(addons)] = meta_id[p] THEN Tail(addons)
    ELSE <<Head(addons)>> \o list_remove(Tail(addons), p)

\* "self._addon in addons"
list_has(addons, p) == \E j \in 1..Len(addons) : meta_id[addons[j]] = meta_id[p]

\* the closing loop of ModuleInterface.unload over tuple(self._used_modules):
\* [used, ledger, sys, err]; an absent ledger key reads as the empty list
RECURSIVE release_used(_, _, _, _, _)
release_used(todo, used, led, sys, p) ==
    IF todo = << >> THEN [used |-> used, ledger |-> led, sys |-> sys, err |-> ""]
    ELSE LET h == Head(todo)
             used1 == Tail(used)
             addons == led[h]
         IN  IF Len(addons) < 2
             THEN IF addons = << >>
                  THEN [used |-> used1, ledger |-> led, sys |-> unload_module(sys, Helper),
                        err |-> "KeyError"]
                  ELSE release_used(Tail(todo), used1, [led EXCEPT ![h] = << >>],
                                    unload_module(sys, Helper), p)
             ELSE IF ~list_has(addons, p)
             THEN [used |-> used1, ledger |-> led, sys |-> sys, err |-> "ValueError"]
             ELSE release_used(Tail(todo), used1, [led EXCEPT ![h] = list_remove(addons, p)],
                               sys, p)

\* ModuleInterface.unload of interface i:
\* [err, refs, module (Addon._module), sys, pattr, iface, ledger]
iface_unload(i, e) ==
    LET f == ifaces[i]
        p == f.addon
        g == f.module
        ref_count == RefCount(p, g, e)
        rel == release_used(f.used, f.used, ledger,
                            unload_module(sys_modules, module_import_path(p)), p)
        same == [err |-> "", refs |-> 0, module |-> a_module[p], sys |-> sys_modules,
                 pattr |-> parent_attr, iface |-> f, ledger |-> ledger, on_unload |-> FALSE]
    IN  IF g = 0 THEN [same EXCEPT !.err = "RuntimeError"]
        ELSE IF ref_count > 4 THEN [same EXCEPT !.err = "RuntimeError", !.refs = ref_count]
        ELSE [err |-> rel.err, refs |-> ref_count, module |-> 0, sys |-> rel.sys,
              pattr |-> IF ref_count = 4 THEN [parent_attr EXCEPT ![p] = 0] ELSE parent_attr,
              iface |-> [f EXCEPT !.module = 0, !.used = rel.used],
              ledger |-> rel.ledger, on_unload |-> TRUE]

\* the on_load loop of ModuleInterface.load: the helper module h returned k times
RECURSIVE note_used(_, _, _, _)
note_used(k, h, p, acc) ==
    IF k = 0 THEN acc
    ELSE note_used(k - 1, h, p,
                   [used |-> Append(acc.used, h),
                    ledger |-> IF list_has(acc.ledger[h], p) THEN acc.ledger
                               ELSE [acc.ledger EXCEPT ![h] = Append(@, p)]])

\* ------------------------------------------------------------ AddonMeta

\* how many hand edits of addon.json a behaviour contains
MaxEdits == 1

\* field_types: the fields of the schema and their types
MetaFields == {"id", "module", "depends", "name", "description", "authors", "version"}

field_types ==
    [f \in MetaFields |-> IF f \in {"depends", "authors"} THEN "list" ELSE "str"]

RequiredFields == {"id", "module", "name", "authors"}

\* JSON values. A string in the file is a character written raw or as a \u
\* escape: "a" an ASCII letter, "e9" a non-ASCII letter, "d800" a lone
\* surrogate (which a UTF-8 file can only hold escaped); json.load gives the
\* character either way.
\* Every value is a record of one shape: its kind k, and for a number n,
\* for a boolean n (0 false, 1 true), for a string ch and esc, for a list
\* its items, for an object the number n of its members.
Value(k, ch, esc, n, items) == [k |-> k, ch |-> ch, esc |-> esc, n |-> n, items |-> items]
Absent == Value("absent", "", FALSE, 0, << >>)
Null == Value("null", "", FALSE, 0, << >>)
Num(n) == Value("num", "", FALSE, n, << >>)
Bool(b) == Value("bool", "", FALSE, IF b THEN 1 ELSE 0, << >>)
Str(ch, esc) == Value("str", ch, esc, 0, << >>)
List(items) == Value("list", "", FALSE, 0, items)
Object(n) == Value("obj", "", FALSE, n, << >>)

\* the strings a file may hold
FileStrings == {Str("a", FALSE), Str("e9", FALSE), Str("e9", TRUE), Str("d800", TRUE)}

\* what may stand as an element of a list in the file
FileElements ==
    {Str("a", FALSE), Str("d800", TRUE), Num(0), Num(1), Bool(FALSE), Bool(TRUE), Null,
     List(<< >>), List(<<Num(1)>>), Object(0), Object(1)}

\* what an edit may write as the value of a field
FileValues ==
    FileStrings \cup {Num(0), Num(1), Bool(FALSE), Bool(TRUE), Null, Object(0), Object(1)}
    \cup {List(<< >>)}
    \cup {List(<<e>>) : e \in FileElements}
    \cup {List(<<Str("a", FALSE), e>>) : e \in FileElements}

\* json.load of one value: escapes are decoded
RECURSIVE load_value(_)
load_value(v) ==
    IF v.k = "str" THEN Str(v.ch, FALSE)
    ELSE IF v.k = "list" THEN List([i \in 1..Len(v.items) |-> load_value(v.items[i])])
    ELSE v

\* the value cannot be written to a UTF-8 file by json.dump(ensure_ascii=False)
RECURSIVE unencodable(_)
unencodable(v) ==
    IF v.k = "str" THEN v.ch = "d800"
    ELSE IF v.k = "list" THEN \E i \in 1..Len(v.items) : unencodable(v.items[i])
    ELSE FALSE

\* Python: isinstance(value, str) / isinstance(value, list)
isinstance(v, type) == v.k = type

\* Python truth value of a loaded JSON value
truthy(v) ==
    IF v.k = "null" THEN FALSE
    ELSE IF v.k = "num" THEN v.n # 0
    ELSE IF v.k = "bool" THEN v.n # 0
    ELSE IF v.k = "str" THEN TRUE
    ELSE IF v.k = "list" THEN v.items # << >>
    ELSE v.n # 0

\* the file as json.load sees it: a JSON object with these schema fields,
\* another JSON value, or text that is not JSON (a write that broke off)
JsonFile(top, layout, fields) == [top |-> top, layout |-> layout, f |-> fields]

NoFields == [f \in MetaFields |-> Absent]

MinimalFields ==
    [f \in MetaFields |->
        IF f \in {"id", "module", "name"} THEN Str("a", FALSE)
        ELSE IF f = "authors" THEN List(<<Str("a", FALSE)>>)
        ELSE Absent]

FullFields ==
    [f \in MetaFields |->
        IF f \in {"depends", "authors"} THEN List(<<Str("a", FALSE)>>)
        ELSE Str("a", FALSE)]

\* the files a behaviour starts from: written by hand without indentation
Baselines == {JsonFile("object", "compact", MinimalFields),
              JsonFile("object", "compact", FullFields)}

NoData == [f \in MetaFields |-> Value("nodata", "", FALSE, 0, << >>)]

\* DEFAULTS
DEFAULTS(f) ==
    IF f = "version" THEN Str("0.0.1", FALSE)
    ELSE IF f = "description" THEN Str("", FALSE)
    ELSE List(<< >>)

DefaultFields == {"version", "description", "depends"}

\* AbstractAddonMeta._required_fields
required_fields(content) == \A f \in RequiredFields : content[f] # Absent

\* AbstractAddonMeta._fields_types: TRUE when no field is rejected
fields_types(content) ==
    \A f \in MetaFields :
        LET value == content[f]
        IN  \/ value = Absent
            \/ value = Null
            \/ /\ isinstance(value, field_types[f])
               /\ f \in {"depends", "authors"}
                  => ~\E i \in 1..Len(value.items) :
                        ~isinstance(value.items[i], "str") /\ truthy(value.items[i])

\* AbstractAddonMeta._validate_content
validate_content(content) == required_fields(content) /\ fields_types(content)

\* AbstractAddonMeta._install_defaults: the content afterwards
install_defaults(content) ==
    [f \in MetaFields |->
        IF f \in DefaultFields /\ content[f] = Absent THEN DEFAULTS(f) ELSE content[f]]

\* AddonMeta.save on data: the file it leaves and the error it raises
meta_save(data) ==
    IF \E f \in MetaFields : data[f] # Absent /\ unencodable(data[f])
    THEN [file |-> JsonFile("broken", "indent2", NoFields), err |-> "UnicodeEncodeError"]
    ELSE [file |-> JsonFile("object", "indent2", data), err |-> ""]

\* AddonMeta.read of file while _data is data: [data, file, err, wrote]
meta_read(file, data) ==
    LET content == [f \in MetaFields |->
                        IF file.f[f] = Absent THEN Absent ELSE load_value(file.f[f])]
        filled == install_defaults(content)
        saved == meta_save(filled)
    IN  IF file.top = "broken"
        THEN [data |-> data, file |-> file, err |-> "JSONDecodeError", wrote |-> FALSE]
        ELSE IF file.top # "object"
        THEN [data |-> data, file |-> file, err |-> "AddonMetaInvalid", wrote |-> FALSE]
        ELSE IF ~validate_content(content)
        THEN [data |-> data, file |-> file, err |-> "AddonMetaInvalid", wrote |-> FALSE]
        ELSE IF filled # content
        THEN [data |-> filled, file |-> saved.file, err |-> saved.err, wrote |-> TRUE]
        ELSE [data |-> filled, file |-> file, err |-> "", wrote |-> FALSE]

\* ---------------------------------------------------------- query_addons

\* Python `x in y` for strings: x occurs in y (names are made of a and b)
Substring(x, y) == \E pre \in {"", "a", "b"}, post \in {"", "a", "b"} : pre \o x \o post = y

\* Python `x in y` for a list y
Contains(items, x) == \E i \in 1..Len(items) : items[i] = x

\* name, authors, description of a metadata: what a successful read can leave
\* (an element of authors that is not a string passes the read when it is
\* falsy)
AttrChoices ==
    [name : {"ab", "b"},
     authors : {<<Str("a", FALSE)>>, <<Str("b", FALSE), Null>>},
     description : {"", "a"}]

PlainAttrs == [name |-> "ab", authors |-> <<Str("a", FALSE)>>, description |-> ""]

\* the criteria of a query_addons call; Null: the parameter keeps its
\* default None
Criteria ==
    [author : {Null, Str("a", FALSE)},
     name : {Null, Str("a", FALSE)},
     description : {Null, Str("a", FALSE)},
     enabled : {None, Some(TRUE), Some(FALSE)},
     ci : {FALSE}]

\* str.lower over the strings of the metadata and of the criteria
lower(x) ==
    IF x = "A" THEN "a"
    ELSE IF x = "B" THEN "b"
    ELSE IF x \in {"Ab", "aB", "AB"} THEN "ab"
    ELSE x

\* name, authors, description that differ in letter case only
CaseAttrChoices ==
    [name : {"ab", "Ab"},
     authors : {<<Str("a", FALSE)>>, <<Str("A", FALSE)>>, <<Str("b", FALSE)>>},
     description : {"B"}]

\* the criteria of a query_addons call with case_insensitivity=True
CaseCriteria ==
    [author : {Null, Str("a", FALSE), Str("A", FALSE)},
     name : {Null, Str("a", FALSE), Str("A", FALSE)},
     description : {Null, Str("b", FALSE)},
     enabled : {None},
     ci : {TRUE}]

\* the author test of the case-insensitive branch over the first n authors:
\* "match" when an author in lower case equals the argument, "raise" when an
\* author that is no string is met before that, else "none"
RECURSIVE author_scan(_, _, _)
author_scan(items, author, k) ==
    IF k > Len(items) THEN "none"
    ELSE IF ~isinstance(items[k], "str") THEN "raise"
    ELSE IF lower(items[k].ch) = author.ch THEN "match"
    ELSE author_scan(items, author, k + 1)

\* what the search statement raises for the addon of path p ("": nothing)
query_raises(p, c) ==
    IF c.ci /\ c.author # Null /\ author_scan(meta_attrs[p].authors, c.author, 1) = "raise"
    THEN "AttributeError"
    ELSE ""

\* the search statement of query_addons for the addon of path p, with the
\* stored records m
query_match(m, p, c) ==
    LET md == meta_attrs[p]
        string_match ==
            IF ~c.ci
            THEN \/ Contains(md.authors, c.author)
                 \/ (c.name # Null /\ Substring(c.name.ch, md.name))
                 \/ (c.description # Null
                       /\ Substring(c.description.ch, md.description))
            ELSE \/ (c.author # Null /\ author_scan(md.authors, c.author, 1) = "match")
                 \/ (c.name # Null /\ Substring(lower(c.name.ch), lower(md.name)))
                 \/ (c.description # Null
                       /\ Substring(lower(c.description.ch), lower(md.description)))
    IN  \/ string_match
        \/ (c.enabled.some /\ c.enabled.val = get_stored_addon(m, meta_id[p]).enabled)

\* ------------------------------------------------------------------ actions

\* this call directly follows a successful set_addon_enabled on the same
\* addon: a get_addon_enabled, or a set_addon_enabled with the same value
Chained(op, x, r, b) ==
    /\ last.op = "set_enabled" /\ last.err = ""
    /\ r.err = "" /\ last.p = Target(x)
    /\ \/ op = "get_enabled"
       \/ op = "set_enabled" /\ last.b = b

\* the effects of a finished registry call r, observed as op
Observed(op, x, r, b, uc, fc) ==
    [Observe(op, x, r.g, r.ctx, r.err) EXCEPT
        !.b = b, !.use_cache = uc, !.force = fc, !.ret = r.ret,
        !.yielded = r.g.yielded, !.found = IF r.err = "" THEN r.g.found ELSE 0,
        !.chained = Chained(op, x, r, b)]

Commit(op, x, r, b, uc, fc) ==
    /\ map' = r.ctx.map
    /\ a_system' = r.g.sys
    /\ reverify' = Reverified(r.ctx)
    /\ last' = Observed(op, x, r, b, uc, fc)

\* list(system.iter_filesystem_addons())
Discover ==
    LET g == iter_filesystem_addons(Ctx0, a_system, 1, {}, "")
    IN  /\ Commit("discover", NoArg, [g |-> g, ctx |-> g.ctx, err |-> g.err, ret |-> FALSE],
                  FALSE, FALSE, FALSE)
        /\ UNCHANGED <<depends, meta_id, installed>>
        /\ UNCHANGED loadvars

\* system.get_addon(addon)
GetAddon(x) ==
    LET g == get_addon(Ctx0, a_system, x)
    IN  /\ Commit("get_addon", x, [g |-> g, ctx |-> g.ctx, err |-> g.err, ret |-> FALSE],
                  FALSE, FALSE, FALSE)
        /\ UNCHANGED <<depends, meta_id, installed>>
        /\ UNCHANGED loadvars

SetAddonEnabled(x, b) ==
    /\ Commit("set_enabled", x, set_addon_enabled(x, b), b, FALSE, FALSE)
    /\ UNCHANGED <<depends, meta_id, installed>>
    /\ UNCHANGED loadvars

GetAddonEnabled(x) ==
    /\ Commit("get_enabled", x, get_addon_enabled(x), FALSE, FALSE, FALSE)
    /\ UNCHANGED <<depends, meta_id, installed>>
    /\ UNCHANGED loadvars

EnableAddon(x) ==
    /\ Commit("enable", x, enable_addon(x), FALSE, FALSE, FALSE)
    /\ UNCHANGED <<depends, meta_id, installed>>
    /\ UNCHANGED loadvars

DisableAddon(x) ==
    /\ Commit("disable", x, disable_addon(x), FALSE, FALSE, FALSE)
    /\ UNCHANGED <<depends, meta_id, installed>>
    /\ UNCHANGED loadvars

CheckDependencies(x, uc, fc) ==
    LET r == system_check_dependencies(x, uc, fc)
    IN  /\ Commit("check", x, r, FALSE, uc, fc)
        /\ UNCHANGED <<depends, meta_id, installed>>
        /\ UNCHANGED loadvars

SatisfyDependencies(x) ==
    LET g == get_addon(Ctx0, a_system, x)
        outs == IF g.err = "" THEN install_libraries(depends[g.found])
                ELSE {[installed |-> installed, ret |-> << >>]}
    IN  \E out \in outs :
            LET r == satisfy_dependencies(x, out)
            IN  /\ map' = r.ctx.map
                /\ a_system' = r.g.sys
                /\ reverify' = Reverified(r.ctx)
                /\ last' = [Observed("satisfy", x, r, FALSE, FALSE, FALSE) EXCEPT
                                !.seq = r.seq]
                /\ installed' = out.installed
                /\ UNCHANGED <<depends, meta_id>>
                /\ UNCHANGED loadvars

\* the addon.json of path p is edited: its depends list becomes deps
ChangeDepends(p, deps) ==
    /\ deps # depends[p]
    /\ depends' = [depends EXCEPT ![p] = deps]
    /\ reverify' = [reverify EXCEPT ![p] = TRUE]
    /\ last' = Call("edit", [byId |-> FALSE, p |-> p, id |-> ""])
    /\ UNCHANGED <<meta_id, installed, map, a_system>>
    /\ UNCHANGED loadvars

\* a library is installed or removed behind the lib_manager's back
ToggleLibrary(lib) ==
    /\ installed' = IF lib \in installed THEN installed \ {lib} ELSE installed \cup {lib}
    /\ UNCHANGED <<depends, meta_id, map, a_system, last, reverify>>
    /\ UNCHANGED loadvars

\* list(system.query_addons(author, name, description, enabled)): discovery
\* runs underneath, and the addons that pass the search statement are yielded
QueryAddons(c) ==
    \E g \in {iter_filesystem_addons(Ctx0, a_system, 1, {}, "")} :
        /\ map' = g.ctx.map
        /\ a_system' = g.sys
        /\ reverify' = Reverified(g.ctx)
        /\ last' = [Observed("query", NoArg,
                              [g |-> g, ctx |-> g.ctx, err |-> g.err, ret |-> FALSE],
                              FALSE, FALSE, FALSE) EXCEPT
                        !.crit = c,
                        !.err = IF \E p \in g.yielded : query_raises(p, c) # ""
                                THEN "AttributeError" ELSE g.err,
                        !.yielded = {p \in g.yielded :
                                       /\ query_match(g.ctx.map, p, c)
                                       /\ \A q \in g.yielded :
                                             query_raises(q, c) # "" => p < q}]
        /\ UNCHANGED <<depends, meta_id, installed>>
        /\ UNCHANGED loadvars

\* somebody replaces what the root directory holds under the name of path p
ReplaceEntry(p, k) ==
    /\ entry_kind[p] # k
    /\ entry_kind' = [entry_kind EXCEPT ![p] = k]
    /\ last' = Call("replace", Obj(p))
    /\ UNCHANGED regvars
    /\ UNCHANGED <<a_module, sys_modules, parent_attr, helper_of, next_handle,
                   ifaces, a_interface, ledger, by_param, valid, metavars,
                   refs_builtin, back_refs, namespace, mod_attrs, builtins>>

\* ------------------------------------------------------- loader actions

\* the observation of a loader call on the Addon of path p
LoadCall(op, p) == [Call(op, Obj(p)) EXCEPT !.loaded_before = a_module[p] # 0]

\* the effects of Addon.module as run by op (module() itself or load())
CommitModule(r, p) ==
    /\ r.ld.nh <= MaxHandle
    /\ map' = r.ctx.map
    /\ reverify' = Reverified(r.ctx)
    /\ a_module' = [a_module EXCEPT ![p] = r.module]
    /\ sys_modules' = r.ld.sys
    /\ parent_attr' = r.ld.pattr
    /\ helper_of' = r.ld.hof
    /\ next_handle' = r.ld.nh

\* Addon.module with the namespace: r is what the dependency check and the
\* import gave; with builtin_injection and a namespace that is not empty the
\* import runs inside replace_builtins and the values are then set on the
\* module (setattr on the None a reload returns raises)
module_injected(p, r, builtin_injection) ==
    LET imported == r.checked /\ r.ok
        inject == imported /\ builtin_injection /\ ~namespace_empty(p)
        rb == replace_builtins(builtins, namespace[p])
    IN  IF ~inject THEN [r |-> r, builtins |-> builtins, attrs |-> mod_attrs]
        ELSE IF r.err # "" THEN [r |-> r, builtins |-> rb.after, attrs |-> mod_attrs]
        ELSE IF r.ret = 0
        THEN [r |-> [r EXCEPT !.err = "AttributeError", !.module = a_module[p]],
              builtins |-> rb.after, attrs |-> mod_attrs]
        ELSE [r |-> r, builtins |-> rb.after,
              attrs |-> [mod_attrs EXCEPT ![r.ret] =
                            [n \in BindNames |-> IF namespace[p][n] # NoValue
                                                 THEN namespace[p][n] ELSE @[n]]]]

\* addon.module(lib_manager, reload, builtin_injection)
ModuleInjecting(p, lm, reload, builtin_injection) ==
    \E q \in {module_injected(p, module(p, lm, reload), builtin_injection)} :
        /\ CommitModule(q.r, p)
        /\ builtins' = q.builtins
        /\ mod_attrs' = q.attrs
        /\ last' = [LoadCall("module", p) EXCEPT
                        !.reload = reload, !.handle = q.r.ret, !.err = q.r.err,
                        !.executed = q.r.ld.executed, !.checked = q.r.checked,
                        !.ok = q.r.ok, !.inject = builtin_injection,
                        !.chained = /\ last.op = "unload_module" /\ last.p = p
                                    /\ last.loaded_before]
        /\ UNCHANGED <<depends, meta_id, installed, a_system, ifaces, a_interface, ledger>>
        /\ UNCHANGED <<by_param, valid, metavars, refs_builtin, back_refs, namespace,
                       entry_kind>>

\* addon.module(lib_manager, reload): builtin_injection keeps its default
Module(p, lm, reload) == ModuleInjecting(p, lm, reload, FALSE)

\* addon.namespace.set(name, value) and addon.namespace.pop(name)
SetNamespace(p, n, v) ==
    /\ namespace[p][n] # v
    /\ namespace' = [namespace EXCEPT ![p][n] = v]
    /\ last' = Call("namespace", Obj(p))
    /\ UNCHANGED regvars
    /\ UNCHANGED <<a_module, sys_modules, parent_attr, helper_of, next_handle,
                   ifaces, a_interface, ledger, by_param, valid, metavars,
                   refs_builtin, back_refs, mod_attrs, builtins, entry_kind>>

\* addon.unload_module()
UnloadModule(p) ==
    LET r == addon_unload_module(p)
    IN  /\ a_module' = [a_module EXCEPT ![p] = r.module]
        /\ sys_modules' = r.sys
        /\ last' = [LoadCall("unload_module", p) EXCEPT
                        !.handle = a_module[p],
                        !.chained = last.op = "unload_module" /\ last.p = p]
        /\ UNCHANGED regvars
        /\ UNCHANGED <<parent_attr, helper_of, next_handle, ifaces, a_interface, ledger>>
        /\ UNCHANGED ctorvars

\* AbstractAddon.interface without the refusal of another type while the
\* attached interface is loaded
addon_interface_replacing(p, cls, lm) ==
    LET cur == a_interface[p]
        err == IF cur # 0 /\ ifaces[cur].cls = cls THEN ""
               ELSE IF p \notin a_system /\ ~lm THEN "AddonSystemException"
               ELSE ""
    IN  [err |-> err, create |-> err = "" /\ ~(cur # 0 /\ ifaces[cur].cls = cls)]

\* AbstractAddon.interface: the error raised ("" for none) and whether a new
\* interface object is created and attached
addon_interface(p, cls, lm) ==
    LET cur == a_interface[p]
        err == IF cur # 0 /\ ifaces[cur].module # 0 /\ ifaces[cur].cls # cls
               THEN "AddonSystemException"
               ELSE IF cur # 0 /\ ifaces[cur].cls = cls THEN ""
               ELSE IF p \notin a_system /\ ~lm THEN "AddonSystemException"
               ELSE ""
    IN  [err |-> err, create |-> err = "" /\ ~(cur # 0 /\ ifaces[cur].cls = cls)]

\* addon.interface(cls, lib_manager)
Interface(p, cls, lm) ==
    LET cur == a_interface[p]
        new == CHOOSE i \in IfaceIds : ~ifaces[i].made /\ \A j \in IfaceIds : ~ifaces[j].made => i <= j
        r == addon_interface(p, cls, lm)
        err == r.err
        create == r.create
    IN  /\ create => \E i \in IfaceIds : ~ifaces[i].made
        /\ ifaces' = IF create
                     THEN [ifaces EXCEPT ![new] = [NoIface EXCEPT !.made = TRUE, !.addon = p,
                                                                   !.cls = cls, !.lm = lm]]
                     ELSE ifaces
        /\ a_interface' = IF create THEN [a_interface EXCEPT ![p] = new] ELSE a_interface
        /\ last' = [LoadCall("interface", p) EXCEPT
                        !.cls = cls,
                        !.err = err, !.i = IF err # "" THEN 0 ELSE IF create THEN new ELSE cur]
        /\ UNCHANGED regvars
        /\ UNCHANGED <<a_module, sys_modules, parent_attr, helper_of, next_handle, ledger>>
        /\ UNCHANGED ctorvars

\* the outcome of ModuleInterface.load on interface record f of addon p when
\* Addon.module() gives r and on_load returns the helper module k times:
\* refused when the guard found the interface loaded; otherwise, when r is a
\* handle, on_load runs once and what it returned is recorded
load_result(f, p, k, r, refused) ==
    LET n == IF r.err = "" /\ r.ld.nh <= MaxHandle
             THEN note_used(k, r.ld.hof[r.ret], p, [used |-> f.used, ledger |-> ledger])
             ELSE [used |-> f.used, ledger |-> ledger]
    IN  IF refused
        THEN [refused |-> TRUE, err |-> "AddonSystemException", r |-> r, iface |-> f,
              ledger |-> ledger, on_load |-> 0]
        ELSE IF r.err # ""
        THEN [refused |-> FALSE, err |-> r.err, r |-> r, iface |-> f,
              ledger |-> ledger, on_load |-> 0]
        ELSE [refused |-> FALSE, err |-> "", r |-> r,
              iface |-> [f EXCEPT !.module = r.ret, !.used = n.used],
              ledger |-> n.ledger, on_load |-> 1]

\* ModuleInterface.load without the module_loaded guard
iface_load_unguarded(i, k) ==
    load_result(ifaces[i], ifaces[i].addon, k,
                module(ifaces[i].addon, ifaces[i].lm, FALSE), FALSE)

\* ModuleInterface.load of interface i whose on_load returns the helper module
\* k times: refused when already loaded; otherwise the handle comes from
\* Addon.module()
iface_load(i, k) ==
    load_result(ifaces[i], ifaces[i].addon, k,
                module(ifaces[i].addon, ifaces[i].lm, FALSE), ifaces[i].module # 0)

\* interface.load(); on_load returns the helper module k times (0: nothing)
IfaceLoad(i, k) ==
    /\ ifaces[i].made
    /\ \E q \in {iface_load(i, k)} :
        LET p == ifaces[i].addon
            obs == [LoadCall("load", p) EXCEPT !.i = i, !.on_load = q.on_load]
        IN  IF q.refused
            THEN /\ last' = [obs EXCEPT !.err = q.err]
                 /\ UNCHANGED regvars
                 /\ UNCHANGED loadvars
            ELSE /\ CommitModule(q.r, p)
                 /\ last' = [obs EXCEPT
                                 !.handle = q.r.ret, !.err = q.err,
                                 !.executed = q.r.ld.executed, !.checked = q.r.checked,
                                 !.ok = q.r.ok]
                 /\ ifaces' = [ifaces EXCEPT ![i] = q.iface]
                 /\ ledger' = q.ledger
                 /\ UNCHANGED <<depends, meta_id, installed, a_system, a_interface>>
                 /\ UNCHANGED ctorvars

\* the effects of ModuleInterface.unload of interface i with result r
CommitUnload(i, r) ==
    /\ a_module' = [a_module EXCEPT ![ifaces[i].addon] = r.module]
    /\ sys_modules' = r.sys
    /\ parent_attr' = r.pattr
    /\ ifaces' = [ifaces EXCEPT ![i] = r.iface]
    /\ ledger' = r.ledger

\* interface.unload() while the caller holds e references to the module
IfaceUnload(i, e) ==
    LET r == iface_unload(i, e)
    IN  /\ ifaces[i].made
        /\ CommitUnload(i, r)
        /\ last' = [LoadCall("unload", ifaces[i].addon) EXCEPT
                        !.i = i, !.err = r.err, !.refs = r.refs, !.handle = ifaces[i].module,
                        !.ext = e, !.on_unload = r.on_unload]
        /\ UNCHANGED regvars
        /\ UNCHANGED <<helper_of, next_handle, a_interface>>
        /\ UNCHANGED ctorvars

\* addon.unload_interface() while the caller holds e references to the module
UnloadInterface(p, e) ==
    LET i == a_interface[p]
        r == iface_unload(i, e)
    IN  IF i = 0
        THEN /\ last' = LoadCall("unload_interface", p)
             /\ UNCHANGED regvars
             /\ UNCHANGED loadvars
        ELSE /\ CommitUnload(i, r)
             /\ a_interface' = IF r.err = "" THEN [a_interface EXCEPT ![p] = 0] ELSE a_interface
             /\ last' = [LoadCall("unload_interface", p) EXCEPT
                             !.i = i, !.err = r.err, !.refs = r.refs,
                             !.handle = ifaces[i].module,
                             !.ext = e, !.on_unload = r.on_unload]
             /\ UNCHANGED regvars
             /\ UNCHANGED <<helper_of, next_handle>>
             /\ UNCHANGED ctorvars

\* ABCFirstParamSingletonMeta.__call__ for Addon(path): [by_param, found (the
\* instance returned, 0: none), err, inits (constructor bodies entered)].
\* FirstParamSingletonMeta.__call__ looks the path up and constructs and
\* registers an instance when there is none; then a second object is
\* constructed and dropped.  Addon.__init__ raises AddonInvalid for a
\* directory that fails validation.
addon_construct(p) ==
    LET known == p \in by_param
        first == IF known THEN [by |-> by_param, found |-> p, err |-> "", inits |-> 0]
                 ELSE IF valid[p]
                 THEN [by |-> by_param \cup {p}, found |-> p, err |-> "", inits |-> 1]
                 ELSE [by |-> by_param, found |-> 0, err |-> "AddonInvalid", inits |-> 1]
    IN  IF first.err # "" THEN first
        ELSE IF valid[p] THEN [first EXCEPT !.inits = @ + 1]
        ELSE [first EXCEPT !.inits = @ + 1, !.found = 0, !.err = "AddonInvalid"]

\* Addon(path)
Construct(p) ==
    LET r == addon_construct(p)
    IN  /\ by_param' = r.by
        /\ last' = [Call("construct", Obj(p)) EXCEPT
                        !.err = r.err, !.found = r.found, !.inits = r.inits,
                        !.pre = IF p \in by_param THEN "existing" ELSE "new"]
        /\ UNCHANGED <<regvars, valid, metavars, envvars>>
        /\ UNCHANGED <<a_module, sys_modules, parent_attr, helper_of, next_handle,
                       ifaces, a_interface, ledger>>

\* the extra directory appears (valid) or is removed or broken (not valid)
SetValid(v) ==
    /\ valid[ExtraPath] # v
    /\ valid' = [valid EXCEPT ![ExtraPath] = v]
    /\ UNCHANGED <<regvars, last, by_param, metavars, envvars>>
    /\ UNCHANGED <<a_module, sys_modules, parent_attr, helper_of, next_handle,
                   ifaces, a_interface, ledger>>

\* ------------------------------------------------------- metadata actions

MetaCall(op) == Call(op, NoArg)

\* AddonMeta(path) for the first time, or metadata.read() on the instance;
\* a first read that raises leaves no instance behind
MetaRead ==
    LET r == meta_read(m_file, m_data)
    IN  /\ m_file' = r.file
        /\ m_data' = IF m_data = NoData /\ r.err # "" THEN NoData ELSE r.data
        /\ last' = [MetaCall("meta_read") EXCEPT
                        !.err = r.err, !.wrote = r.wrote,
                        !.pre = IF m_data = NoData THEN "new" ELSE "existing",
                        !.chained = last.op = "meta_save" /\ last.chained]
        /\ UNCHANGED <<regvars, m_edits, meta_attrs, envvars>>
        /\ UNCHANGED <<a_module, sys_modules, parent_attr, helper_of, next_handle,
                       ifaces, a_interface, ledger, by_param, valid>>

\* metadata.save() on the instance
MetaSave ==
    LET r == meta_save(m_data)
    IN  /\ m_data # NoData
        /\ m_file' = r.file
        /\ last' = [MetaCall("meta_save") EXCEPT
                        !.err = r.err, !.wrote = TRUE,
                        !.chained = last.op = "meta_read" /\ last.err = ""]
        /\ UNCHANGED <<regvars, m_data, m_edits, meta_attrs, envvars>>
        /\ UNCHANGED <<a_module, sys_modules, parent_attr, helper_of, next_handle,
                       ifaces, a_interface, ledger, by_param, valid>>

\* somebody rewrites addon.json giving field f the value v (Absent: without f)
MetaEdit(f, v) ==
    /\ m_edits < MaxEdits
    /\ m_edits' = m_edits + 1
    /\ m_file' = JsonFile("object", "compact",
                          [(IF m_file.top = "object" THEN m_file.f ELSE MinimalFields)
                              EXCEPT ![f] = v])
    /\ last' = MetaCall("meta_edit")
    /\ UNCHANGED <<regvars, m_data, meta_attrs, envvars>>
    /\ UNCHANGED <<a_module, sys_modules, parent_attr, helper_of, next_handle,
                   ifaces, a_interface, ledger, by_param, valid>>

\* somebody replaces addon.json by a JSON text that is not an object
MetaReplace ==
    /\ m_edits < MaxEdits
    /\ m_edits' = m_edits + 1
    /\ m_file' = JsonFile("list", "compact", NoFields)
    /\ last' = MetaCall("meta_edit")
    /\ UNCHANGED <<regvars, m_data, meta_attrs, envvars>>
    /\ UNCHANGED <<a_module, sys_modules, parent_attr, helper_of, next_handle,
                   ifaces, a_interface, ledger, by_param, valid>>

\* the state after AddonSystem(root, lib_manager) over directories whose
\* addon.json files declare the ids ids[p]
InitOf(ids) ==
    /\ depends \in [Paths -> DepLists]
    /\ meta_id = ids
    /\ installed = DepNames \ Volatile
    /\ map = [id \in AllIds |-> NoEntry]
    /\ a_system = {}
    /\ last = Call("init", NoArg)
    /\ reverify = [p \in Paths |-> FALSE]
    /\ a_module = [p \in Paths |-> 0]
    /\ sys_modules = [u \in Units |-> 0]
    /\ parent_attr = [p \in Paths |-> 0]
    /\ helper_of = [g \in Handles |-> 0]
    /\ next_handle = 0
    /\ ifaces = [i \in IfaceIds |-> NoIface]
    /\ a_interface = [p \in Paths |-> 0]
    /\ ledger = [g \in Handles |-> << >>]
    /\ by_param = Paths
    /\ valid = [p \in CtorPaths |-> TRUE]
    /\ m_edits = 0
    /\ m_data = NoData
    /\ mod_attrs = [g \in Handles |-> NoBindings]
    /\ builtins = Builtins0

\* the metadata file outside the metadata view: a minimal one
MinimalFile == m_file = JsonFile("object", "compact", MinimalFields)

\* every addon with the same plain name, author and description
PlainMetadata == meta_attrs = [p \in Paths |-> PlainAttrs]

\* addons whose code imports no built-in module, with empty namespaces, in
\* a root directory that holds valid addons only
PlainEnv ==
    /\ refs_builtin = {}
    /\ back_refs = {}
    /\ namespace = [p \in Paths |-> NoBindings]
    /\ entry_kind = [p \in Paths |-> "addon"]

Init == InitOf(1 :> "x" @@ 2 :> "y") /\ MinimalFile /\ PlainMetadata /\ PlainEnv

\* the dependency-cache view of the registry
Next ==
    \/ Discover
    \/ \E x \in AddonArgs, b \in BOOLEAN : SetAddonEnabled(x, b)
    \/ \E x \in AddonArgs, uc \in BOOLEAN, fc \in BOOLEAN : CheckDependencies(x, uc, fc)
    \/ \E x \in AddonArgs : SatisfyDependencies(x)
    \/ \E p \in Paths, deps \in DepLists : ChangeDepends(p, deps)
    \/ \E lib \in Volatile : ToggleLibrary(lib)

Spec == Init /\ [][Next]_vars

\* the enabled-flag view of the registry
NextEnabled ==
    \/ Discover
    \/ \E x \in AddonArgs, b \in BOOLEAN : SetAddonEnabled(x, b)
    \/ \E x \in AddonArgs : GetAddonEnabled(x)
    \/ \E x \in AddonArgs : EnableAddon(x)
    \/ \E x \in AddonArgs : DisableAddon(x)
    \/ \E p \in Paths, deps \in DepLists : ChangeDepends(p, deps)
    \/ \E lib \in Volatile : ToggleLibrary(lib)

SpecEnabled == Init /\ [][NextEnabled]_vars

\* the discovery view: the directories may declare the same id
InitDup ==
    \E ids \in [Paths -> AllIds] : InitOf(ids) /\ MinimalFile /\ PlainMetadata /\ PlainEnv

NextDup ==
    \/ Discover
    \/ \E x \in AddonArgs : GetAddon(x)
    \/ \E x \in AddonArgs : GetAddonEnabled(x)
    \/ \E x \in AddonArgs, b \in BOOLEAN : SetAddonEnabled(x, b)
    \/ \E x \in AddonArgs, uc \in BOOLEAN : CheckDependencies(x, uc, FALSE)
    \/ \E lib \in Volatile : ToggleLibrary(lib)

SpecDup == InitDup /\ [][NextDup]_vars

\* the module view: both addons are loaded, reloaded and unloaded, with or
\* without the system installed, while a library comes and goes
InitModule == Init /\ depends = (1 :> <<"a", "b">> @@ 2 :> <<"a">>)

NextModule ==
    \/ Discover
    \/ \E p \in Paths, lm \in BOOLEAN, reload \in BOOLEAN : Module(p, lm, reload)
    \/ \E p \in Paths : UnloadModule(p)
    \/ \E lib \in Volatile : ToggleLibrary(lib)

SpecModule == InitModule /\ [][NextModule]_vars

\* the construction view: Addon(path) is called again and again while the
\* addons of the root are discovered, loaded and unloaded
NextSingleton ==
    \/ \E p \in CtorPaths : Construct(p)
    \/ \E v \in BOOLEAN : SetValid(v)
    \/ Discover
    \/ \E p \in Paths : Module(p, TRUE, FALSE)
    \/ \E p \in Paths : UnloadModule(p)

SpecSingleton == InitModule /\ [][NextSingleton]_vars

\* the interface view: the interfaces of the addon of directory F, created
\* through the system, unloaded while the caller holds references or not
InitLoad == Init /\ depends = (1 :> <<"a">> @@ 2 :> <<"a">>)

NextLoad ==
    \/ Discover
    \/ Module(1, FALSE, FALSE)
    \/ UnloadModule(1)
    \/ \E cls \in Classes : Interface(1, cls, FALSE)
    \/ \E i \in IfaceIds, k \in Returned : IfaceLoad(i, k)
    \/ \E i \in IfaceIds, e \in 0..MaxExt : IfaceUnload(i, e)
    \/ \E e \in 0..MaxExt : UnloadInterface(1, e)

SpecLoad == InitLoad /\ [][NextLoad]_vars

\* the metadata view: one addon.json is read, saved and edited by hand
InitMeta ==
    /\ InitOf(1 :> "x" @@ 2 :> "y")
    /\ depends = (1 :> <<"a">> @@ 2 :> <<"a">>)
    /\ m_file \in Baselines
    /\ PlainMetadata
    /\ PlainEnv

NextMeta ==
    \/ MetaRead
    \/ MetaSave
    \/ \E f \in MetaFields, v \in FileValues \cup {Absent} : MetaEdit(f, v)
    \/ MetaReplace

SpecMeta == InitMeta /\ [][NextMeta]_vars

\* the attachment view: the interfaces of addon 1 are created, loaded and
\* unloaded, and the addon's module may be unloaded behind them; nobody
\* outside holds a reference to the module
NextAttach ==
    \/ Discover
    \/ UnloadModule(1)
    \/ \E cls \in Classes : Interface(1, cls, FALSE)
    \/ \E i \in IfaceIds, k \in Returned : IfaceLoad(i, k)
    \/ \E i \in IfaceIds : IfaceUnload(i, 0)

SpecAttach == InitLoad /\ [][NextAttach]_vars

\* the shared-helper view: one interface per addon, both addons loading and
\* unloading through their interfaces, no outside references
NextLedger ==
    \/ Discover
    \/ \E p \in Paths : Interface(p, "ModuleInterface", FALSE)
    \/ \E i \in IfaceIds, k \in Returned : IfaceLoad(i, k)
    \/ \E i \in IfaceIds : IfaceUnload(i, 0)

SpecLedger == InitLoad /\ [][NextLedger]_vars

\* searching the addons: each addon's name, authors and description is any
\* metadata a read accepts
InitQuery ==
    /\ InitOf(1 :> "x" @@ 2 :> "y")
    /\ depends = (1 :> <<"a">> @@ 2 :> <<"a">>)
    /\ MinimalFile
    /\ meta_attrs \in [Paths -> AttrChoices]
    /\ PlainEnv

NextQuery ==
    \/ \E c \in Criteria : QueryAddons(c)
    \/ \E x \in AddonArgs, b \in BOOLEAN : SetAddonEnabled(x, b)

SpecQuery == InitQuery /\ [][NextQuery]_vars

\* searching without regard to letter case, over names, authors and
\* descriptions in both cases
InitCaseQuery ==
    /\ InitOf(1 :> "x" @@ 2 :> "y")
    /\ depends = (1 :> <<"a">> @@ 2 :> <<"a">>)
    /\ MinimalFile
    /\ meta_attrs \in [Paths -> CaseAttrChoices]
    /\ PlainEnv

NextCaseQuery ==
    \/ \E c \in CaseCriteria : QueryAddons(c)
    \/ \E p \in Paths, b \in BOOLEAN : SetAddonEnabled(Obj(p), b)

SpecCaseQuery == InitCaseQuery /\ [][NextCaseQuery]_vars

\* loading and reloading the first addon, whose code may import a built-in
\* module and whose namespace gets values
InitCode ==
    /\ InitOf(1 :> "x" @@ 2 :> "y")
    /\ depends = (1 :> <<"a">> @@ 2 :> <<"a">>)
    /\ MinimalFile
    /\ PlainMetadata
    /\ refs_builtin \in {{}, {1}}
    /\ back_refs \in {{}, {1}}
    /\ namespace = [p \in Paths |-> NoBindings]
    /\ entry_kind = [p \in Paths |-> "addon"]

NextCode ==
    \/ \E reload \in BOOLEAN, bi \in BOOLEAN : ModuleInjecting(1, TRUE, reload, bi)
    \/ UnloadModule(1)
    \/ \E n \in BindNames, v \in {NoValue, "bound"} : SetNamespace(1, n, v)

SpecCode == InitCode /\ [][NextCode]_vars

\* the dependency lists an edit of addon.json may leave: the same characters
\* split, merged and reordered
HashLists == {<<"a">>, <<"a", "b">>, <<"ab">>, <<"b", "a">>}

\* dependency lists edited specifier by specifier, discovered and checked
NextHash ==
    \/ Discover
    \/ \E p \in Paths, deps \in HashLists : ChangeDepends(p, deps)
    \/ \E p \in Paths : CheckDependencies(Obj(p), TRUE, FALSE)

SpecHash == InitLoad /\ [][NextHash]_vars

\* discovery over a root directory whose entries come to be files, invalid
\* addons and valid addons again, while dependency lists are edited
InitScan ==
    /\ \E ids \in [Paths -> AllIds] : InitOf(ids)
    /\ depends = (1 :> <<"a">> @@ 2 :> <<"a">>)
    /\ MinimalFile
    /\ PlainMetadata
    /\ refs_builtin = {}
    /\ back_refs = {}
    /\ namespace = [p \in Paths |-> NoBindings]
    /\ entry_kind \in [Paths -> EntryKinds]

NextScan ==
    \/ Discover
    \/ \E p \in Paths, k \in EntryKinds : ReplaceEntry(p, k)
    \/ \E p \in Paths, deps \in DepLists : ChangeDepends(p, deps)
    \/ \E lib \in Volatile : ToggleLibrary(lib)

SpecScan == InitScan /\ [][NextScan]_vars

\* ------------------------------------------------------- claims: registry

\* the cache holds a record for p under the hash of p's current depends
Valid(m, p) == EntryOf(m, p).present /\ is_valid(EntryOf(m, p), p)

\* how many save() calls of an observed call wrote the record of path p
WritesOf(obs, p) == Cardinality({i \in 1..Len(obs.writes) : obs.writes[i] = meta_id[p]})

\* the step is a call of op (ToggleLibrary alone keeps the observation and
\* changes what is installed; only satisfy_dependencies installs)
Did(op) == last'.op = op /\ (installed' = installed \/ last' # last)

\* C1: while the dependency list of a registered addon is unchanged, a
\* verdict recorded under its hash survives every call other than a forced
\* check or satisfy_dependencies of that addon; check_dependencies(use_cache,
\* no force) returns the recorded verdict without asking the lib_manager about
\* the addon, whatever the lib_manager would answer now; a forced check asks
\* the lib_manager, returns its answer and leaves that answer recorded under
\* the hash of the current list.
C1_CachedVerdictUntilForced ==
    [][\A p \in Paths :
        /\ ( /\ Valid(map, p)
             /\ depends'[p] = depends[p]
             /\ ~(last'.op = "check" /\ last'.force /\ last'.p = p)
             /\ ~(last'.op = "satisfy" /\ last'.p = p) )
           => ( /\ Valid(map', p)
                /\ EntryOf(map', p).satisfied = EntryOf(map, p).satisfied )
        /\ ( Did("check") /\ last'.p = p /\ last'.use_cache /\ ~last'.force /\ Valid(map, p) )
           => ( /\ last'.err = ""
                /\ last'.ret = EntryOf(map, p).satisfied
                /\ p \notin last'.checks
                /\ EntryOf(map', p) = EntryOf(map, p) )
        /\ ( Did("check") /\ last'.p = p /\ last'.force )
           => ( /\ last'.err = ""
                /\ p \in last'.checks
                /\ last'.ret = lib_check(depends[p])
                /\ Valid(map', p)
                /\ EntryOf(map', p).satisfied = last'.ret )
    ]_vars

\* a forced check has just turned a verdict recorded as unsatisfied under the
\* current hash into satisfied
C1_Witness ==
    /\ last.op = "check" /\ last.force /\ last.err = ""
    /\ last.pre = "unsatisfied"
    /\ last.ret
    /\ Valid(map, last.p) /\ EntryOf(map, last.p).satisfied

\* C2: once the dependency list of an addon has changed, the next
\* check_dependencies(use_cache=true) for it asks the lib_manager about the
\* new list, whatever registry calls ran in between.
C2_ChangedListIsRechecked ==
    [][\A p \in Paths :
        ( reverify[p] /\ Did("check") /\ last'.p = p /\ last'.use_cache )
        => p \in last'.checks
    ]_vars

\* C3: get_addon_enabled directly after a successful set_addon_enabled(a, b)
\* returns b, for both ways of naming a.
C3_GetAfterSet ==
    [][\A p \in Paths :
        ( /\ last.op = "set_enabled" /\ last.err = "" /\ last.p = p
          /\ last'.op = "get_enabled" /\ last'.p = p )
        => ( last'.err = "" /\ last'.ret = last.b )
    ]_vars

\* a get_addon_enabled by id that followed set_addon_enabled(a, TRUE)
C3_Witness ==
    /\ last.op = "get_enabled" /\ last.chained /\ last.err = ""
    /\ last.byId /\ last.ret

\* C4: after disable_addon(a) the addon is recorded as not enabled; after
\* enable_addon(a) as enabled.
C4_DisableDisables ==
    /\ (last.op = "disable" /\ last.err = "") => ~EntryOf(map, last.p).enabled
    /\ (last.op = "enable" /\ last.err = "") => EntryOf(map, last.p).enabled

\* C5 as claimed: a set_addon_enabled call writes the store at most once,
\* and not at all when it repeats the previous call.
C5_AtMostOneWrite ==
    (last.op = "set_enabled" /\ last.err = "")
    => Len(last.writes) <= (IF last.chained THEN 0 ELSE 1)

\* C5 as amended: among consecutive set_addon_enabled(a, b) calls with the
\* same b only the first writes the record of a: once, or twice when a is
\* named by id and had no record under its current hash (discovery records
\* it, then the flag is set); a repeated call does not write a's record; a
\* call that asks for the recorded flag of a record under the current hash
\* writes nothing for a and leaves its record as it was.
C5_WriteSkip ==
    [][\A p \in Paths :
        ( Did("set_enabled") /\ last'.p = p )
        => ( /\ last'.err = ""
             /\ WritesOf(last', p) <= (IF last'.byId /\ ~Valid(map, p) THEN 2 ELSE 1)
             /\ last'.chained
                => ( WritesOf(last', p) = 0 /\ EntryOf(map', p) = EntryOf(map, p) )
             /\ ( Valid(map, p) /\ EntryOf(map, p).enabled = last'.b )
                => ( WritesOf(last', p) = 0 /\ EntryOf(map', p) = EntryOf(map, p) ) )
    ]_vars

\* a repeated set_addon_enabled(a, b) that wrote nothing for a
C5_Witness ==
    /\ last.op = "set_enabled" /\ last.chained /\ last.err = ""
    /\ WritesOf(last, last.p) = 0
    /\ EntryOf(map, last.p).enabled = last.b

\* ------------------------------------------------------- claims: loading

\* the names in a sequence of executed units
Ran(obs) == {obs.executed[k] : k \in 1..Len(obs.executed)}

\* C6: a module() call executes units only when the dependency check it made
\* returned true; when that check returns false the call raises
\* AddonImportError, executes nothing, creates no module object, leaves
\* sys.modules as it was, and an addon without a module stays without one.
C6_NoImportWithoutCheck ==
    [][Did("module") =>
        /\ last'.executed # << >> => (last'.checked /\ last'.ok)
        /\ (last'.checked /\ ~last'.ok)
           => ( /\ last'.err = "AddonImportError"
                /\ last'.handle = 0
                /\ last'.executed = << >>
                /\ a_module'[last'.p] = a_module[last'.p]
                /\ sys_modules' = sys_modules
                /\ next_handle' = next_handle )
    ]_vars

\* module() on an addon without a module was refused for its dependencies
C6_Witness ==
    /\ last.op = "module" /\ last.checked /\ ~last.ok
    /\ last.err = "AddonImportError"
    /\ ~last.loaded_before /\ a_module[last.p] = 0

\* C7: module(reload=True) on an addon that holds a module and whose
\* dependency check passes returns a module and leaves the addon holding one.
C7_ReloadKeepsLoaded ==
    (last.op = "module" /\ last.reload /\ last.loaded_before /\ last.checked /\ last.ok)
    => (last.err = "" /\ last.handle # 0 /\ a_module[last.p] # 0)

\* C8: a successful module() directly after an unload_module() that dropped
\* the addon's module finds the entry unit gone from sys.modules, executes
\* it again and returns a module object other than the one dropped.
C8_LoadAfterUnloadReexecutes ==
    [][(Did("module") /\ last'.chained /\ last'.err = "") =>
        /\ sys_modules[module_import_path(last'.p)] = 0
        /\ module_import_path(last'.p) \in Ran(last')
        /\ last'.handle # 0 /\ last'.handle # last.handle
        /\ a_module'[last'.p] = last'.handle
    ]_vars

\* module(); unload_module(); module() has run and executed the entry unit
C8_Witness ==
    /\ last.op = "module" /\ last.chained /\ last.err = ""
    /\ module_import_path(last.p) \in Ran(last)
    /\ a_module[last.p] = last.handle /\ last.handle > 1

\* C9: unload_module() on an addon without a module raises nothing and
\* changes nothing (the addon, sys.modules, the ledger, the registry); every
\* unload_module() leaves the addon without a module, so further calls in a
\* row are such no-ops.
C9_UnloadModuleIdempotent ==
    [][Did("unload_module") =>
        /\ last'.err = ""
        /\ a_module'[last'.p] = 0
        /\ a_module[last'.p] = 0 => (UNCHANGED loadvars /\ UNCHANGED regvars)
    ]_vars

\* a second unload_module() in a row on the same addon
C9_Witness ==
    /\ last.op = "unload_module" /\ last.chained /\ ~last.loaded_before
    /\ last.err = "" /\ a_module[last.p] = 0

\* C26: a reload re-executes every sub-unit before the unit that references
\* it: the entry unit is re-executed last, after all of its sub-units.
C26_ReloadLeafFirst ==
    [][(Did("module") /\ last'.reload /\ last'.loaded_before /\ last'.err = "") =>
        LET ex == last'.executed
            entry == module_import_path(last'.p)
        IN  /\ ex # << >>
            /\ ex[Len(ex)] = entry
            /\ \A u \in SubUnits(last'.p) :
                 \E i \in 1..Len(ex) : ex[i] = u /\ \A j \in 1..i : ex[j] # entry
    ]_vars

\* C27: a reload of a loaded addon re-executes the entry unit and the
\* sub-units of the addon's package tree and no other unit; units outside the
\* tree that the addon's code refers to (the helper module, a built-in
\* module) are not re-executed and do not make the reload fail.
C27_ReloadScope ==
    [][(Did("module") /\ last'.reload /\ ~last'.inject /\ last'.loaded_before
            /\ last'.checked /\ last'.ok) =>
        /\ last'.err = ""
        /\ {last'.executed[i] : i \in 1..Len(last'.executed)} =
              {module_import_path(last'.p)} \cup SubUnits(last'.p)
    ]_vars

\* C28 as stated: module() with its default arguments on an addon that is
\* not loaded and whose namespace binds a name returns a module that has
\* every bound name as an attribute with the bound value, and leaves
\* builtins as it was.
C28_InjectionByDefault ==
    [][(Did("module") /\ ~last'.inject /\ ~last'.reload /\ ~last'.loaded_before
            /\ last'.err = "" /\ ~namespace_empty(last'.p)) =>
        /\ \A n \in BindNames :
             namespace[last'.p][n] # NoValue =>
                mod_attrs'[last'.handle][n] = namespace[last'.p][n]
        /\ builtins' = builtins
    ]_vars

\* C28: module(builtin_injection=True) on an addon that is not loaded and
\* whose namespace binds a name returns a module that has every bound name
\* as an attribute with the bound value, and leaves builtins as it was.
C28_InjectionOnRequest ==
    [][(Did("module") /\ last'.inject /\ ~last'.reload /\ ~last'.loaded_before
            /\ last'.err = "" /\ ~namespace_empty(last'.p)) =>
        /\ \A n \in BindNames :
             namespace[last'.p][n] # NoValue =>
                mod_attrs'[last'.handle][n] = namespace[last'.p][n]
        /\ builtins' = builtins
    ]_vars

\* a module was loaded with builtin_injection from a namespace that binds
\* both a name builtins has and one it lacks
C28_Witness ==
    /\ last.op = "module" /\ last.inject /\ ~last.reload /\ ~last.loaded_before
    /\ last.err = "" /\ last.handle # 0
    /\ \A n \in BindNames : namespace[last.p][n] = "bound"
    /\ \A n \in BindNames : mod_attrs[last.handle][n] = "bound"
    /\ builtins = Builtins0

\* C33: unload_module() of a loaded addon removes that addon's entry unit
\* and sub-units from sys.modules and leaves the entry unit and the
\* sub-units of every other addon in it.
C33_UnloadPurgesOwnUnits ==
    [][(Did("unload_module") /\ last'.loaded_before) =>
        /\ \A u \in {module_import_path(last'.p)} \cup SubUnits(last'.p) :
              sys_modules'[u] = 0
        /\ \A q \in Paths \ {last'.p} :
              \A u \in {module_import_path(q)} \cup SubUnits(q) :
                 sys_modules'[u] = sys_modules[u]
    ]_vars

\* C34: whenever the interface attached to an addon is loaded, the addon is
\* loaded and holds the module the interface holds.
C34_InterfaceAgreesWithAddon ==
    \A p \in Paths :
        (a_interface[p] # 0 /\ ifaces[a_interface[p]].module # 0)
            => a_module[p] = ifaces[a_interface[p]].module

\* C37: an interface unload() that passed the reference check and ran the
\* on_unload hook completes without error; afterwards the interface's list
\* of used modules is empty, the addon is in no ledger entry, and the ledger
\* is empty when no interface is loaded.
C37_UnloadCompletes ==
    [][(Did("unload") /\ last'.on_unload) =>
        /\ last'.err = ""
        /\ ifaces'[last'.i].used = << >>
        /\ \A h \in Handles : ~list_has(ledger'[h], last'.p)
        /\ (\A i \in IfaceIds : ifaces'[i].module = 0)
              => \A h \in Handles : ledger'[h] = << >>
    ]_vars

\* C38: a reload of a loaded addon comes to an end whatever modules of the
\* package refer to each other: the walk over the units does not run out of
\* stack.
C38_ReloadTerminates ==
    [][(Did("module") /\ last'.reload /\ last'.loaded_before
            /\ last'.checked /\ last'.ok) =>
        last'.err # "RecursionError"
    ]_vars

\* C25: module() without reload on an addon that is loaded returns the stored
\* handle and does nothing else: no dependency check (no checker call, no
\* cache entry read or written), no unit executed, no state changed, also
\* when the addon's dependencies are not satisfied.
C25_LoadedModuleNoOp ==
    [][(Did("module") /\ ~last'.reload /\ a_module[last'.p] # 0) =>
        /\ last'.err = ""
        /\ last'.handle = a_module[last'.p]
        /\ ~last'.checked
        /\ last'.executed = << >>
        /\ UNCHANGED loadvars
        /\ UNCHANGED regvars
    ]_vars

\* module() without reload has answered for a loaded addon whose dependencies
\* are not satisfied
C25_Witness ==
    /\ last.op = "module" /\ ~last.reload /\ last.loaded_before
    /\ last.err = "" /\ last.handle # 0 /\ last.handle = a_module[last.p]
    /\ ~lib_check(depends[last.p])

\* C10: unload() on a loaded interface raises RuntimeError and unloads
\* nothing when more than four references hold the module; with exactly four
\* it raises nothing and leaves the addon without a module, the interface
\* not loaded, and the entry unit and its sub-units out of sys.modules.
C10_SafeUnloadThreshold ==
    (last.op = "unload" /\ last.handle # 0)
    => /\ last.refs > 4
          => (last.err = "RuntimeError" /\ ifaces[last.i].module = last.handle)
       /\ last.refs = 4
          => ( /\ last.err = ""
               /\ a_module[last.p] = 0
               /\ ifaces[last.i].module = 0
               /\ \A u \in {module_import_path(last.p)} \cup SubUnits(last.p) :
                      sys_modules[u] = 0 )

\* the observed call is an unload (direct or through the addon) that was
\* refused for references the caller held: without them at most four remain
RefusedForCaller(obs) ==
    /\ obs.op \in {"unload", "unload_interface"}
    /\ obs.err = "RuntimeError" /\ obs.refs > 4
    /\ obs.ext > 0 /\ obs.refs - obs.ext <= 4

\* C11: an unload refused for more than four references has not run
\* on_unload and has changed nothing (addon, interface, sys.modules, ledger,
\* attachment); the same unload repeated directly afterwards, once the caller
\* holds no reference, raises nothing.
C11_RefusedUnloadRetryable ==
    [][/\ ( last'.op \in {"unload", "unload_interface"} /\ last'.refs > 4 )
          => ( /\ last'.err = "RuntimeError"
               /\ ~last'.on_unload
               /\ UNCHANGED loadvars )
       /\ ( /\ RefusedForCaller(last)
            /\ last'.op \in {"unload", "unload_interface"}
            /\ last'.i = last.i /\ last'.ext = 0 )
          => last'.err = ""
    ]_vars

\* ------------------------------------------------------- claims: discovery

\* two directories of the root declare the same id
Duplicated == \E p \in Paths, q \in Paths : p # q /\ meta_id[p] = meta_id[q]

\* C12: over a root with a duplicated id, discovery fails with a
\* DuplicatedAddon, and so does every failing call that ran discovery for an
\* id lookup.
C12_DuplicateRaisesDuplicatedAddon ==
    Duplicated
    => /\ last.op = "discover" => IsA(last.err, "DuplicatedAddon")
       /\ (last.byId /\ last.err # "") => IsA(last.err, "DuplicatedAddon")

\* C13: over a root with a duplicated id, discovery hands no Addon to its
\* consumer, and no lookup by id returns an addon.
C13_DuplicateYieldsNothing ==
    Duplicated
    => /\ last.op = "discover" => last.yielded = {}
       /\ last.byId => (last.found = 0 /\ last.yielded = {})

\* C30: check_dependencies (whatever use_cache and force_check are) and
\* satisfy_dependencies leave the enabled flag of the addon's stored record
\* as it was.
C30_DependencyOpsKeepEnabled ==
    [][((Did("check") \/ Did("satisfy")) /\ last'.p # 0
            /\ get_stored_addon(map, meta_id[last'.p]).present) =>
        get_stored_addon(map', meta_id[last'.p]).enabled =
            get_stored_addon(map, meta_id[last'.p]).enabled
    ]_vars

\* C31: a run of discovery leaves the enabled flag of every addon that has a
\* stored record as it was, also when the addon's dependency list changed
\* since the record was written.
C31_DiscoveryKeepsEnabled ==
    [][Did("discover") =>
        \A id \in AllIds :
            get_stored_addon(map, id).present =>
                get_stored_addon(map', id).enabled = get_stored_addon(map, id).enabled
    ]_vars

\* C32: set_addon_enabled on an addon that has a stored record leaves the
\* record's satisfied value and dependency hash as they were.
C32_SetEnabledKeepsVerdict ==
    [][(Did("set_enabled") /\ last'.p # 0 /\ last'.err = ""
            /\ get_stored_addon(map, meta_id[last'.p]).present) =>
        /\ get_stored_addon(map', meta_id[last'.p]).satisfied =
              get_stored_addon(map, meta_id[last'.p]).satisfied
        /\ get_stored_addon(map', meta_id[last'.p]).hash =
              get_stored_addon(map, meta_id[last'.p]).hash
    ]_vars

\* C36: two dependency lists with the same depends_hash are the same
\* sequence of specifiers.
C36_HashIdentifiesList ==
    \A p \in Paths, q \in Paths :
        depends_hash(p) = depends_hash(q) => depends[p] = depends[q]

\* C39: get_addon_enabled of an addon of the root answers without error,
\* also for an Addon object that has no stored record yet.
C39_GetEnabledAnswers ==
    [][(Did("get_enabled") /\ last'.p # 0) => last'.err = ""]_vars

C35_ConstructedOnce ==
    [][last'.op = "construct" =>
        /\ last'.p \in by_param => (last'.inits = 0 /\ last'.err = "")
        /\ last'.p \notin by_param => last'.inits <= 1
    ]_vars

\* C15: Addon(p) for a path that has an instance returns that instance and
\* leaves every Addon's module, interface and system, and the set of
\* instances, as they were; an Addon(p) that fails for a path without an
\* instance registers none.
C15_PathKeyedSingleton ==
    [][last'.op = "construct" =>
        /\ last'.p \in by_param
           => ( /\ last'.err = "" /\ last'.found = last'.p
                /\ UNCHANGED <<a_module, a_interface, a_system, ifaces, by_param>> )
        /\ (last'.p \notin by_param /\ last'.err # "") => last'.p \notin by_param'
    ]_vars

\* ------------------------------------------- claims: dependency verdicts

\* C19: a check_dependencies call that has no cached verdict to return
\* (use_cache off, or force_check on, or no record, or a record under
\* another hash) asks the lib_manager, records the verdict under the hash
\* of the current list and returns it; a check(use_cache) that follows
\* returns that verdict without asking the lib_manager.
C19_UncachedCheckPersists ==
    [][\A p \in Paths :
        /\ ( /\ Did("check") /\ last'.p = p /\ last'.err = ""
             /\ (~last'.use_cache \/ last'.force \/ ~Valid(map, p)) )
           => ( /\ p \in last'.checks
                /\ last'.ret = lib_check(depends[p])
                /\ Valid(map', p)
                /\ EntryOf(map', p).satisfied = last'.ret )
        /\ ( /\ last.op = "check" /\ last.p = p /\ last.err = ""
             /\ Did("check") /\ last'.p = p /\ last'.use_cache /\ ~last'.force )
           => ( /\ last'.err = "" /\ last'.ret = last.ret
                /\ p \notin last'.checks )
    ]_vars

\* C19, amended: a check with use_cache or force_check leaves the returned
\* verdict recorded under the hash of the current list, and a
\* check(use_cache) that follows it returns that verdict without asking the
\* lib_manager; the lib_manager is asked when force_check is set, when the
\* addon has no record, or when the addon is passed as object and its
\* record is under another hash. A check with neither use_cache nor
\* force_check asks the lib_manager and returns its answer; it writes
\* nothing when the addon is passed as object.
C19_CachingCheckPersists ==
    [][\A p \in Paths :
        /\ ( /\ Did("check") /\ last'.p = p /\ last'.err = ""
             /\ (last'.use_cache \/ last'.force) )
           => ( /\ Valid(map', p)
                /\ EntryOf(map', p).satisfied = last'.ret )
        /\ ( /\ Did("check") /\ last'.p = p /\ last'.err = ""
             /\ (last'.use_cache \/ last'.force)
             /\ \/ last'.force
                \/ ~EntryOf(map, p).present
                \/ (~last'.byId /\ ~Valid(map, p)) )
           => ( /\ p \in last'.checks
                /\ last'.ret = lib_check(depends[p]) )
        /\ ( /\ Did("check") /\ last'.p = p /\ last'.err = ""
             /\ ~last'.use_cache /\ ~last'.force )
           => ( /\ p \in last'.checks
                /\ last'.ret = lib_check(depends[p])
                /\ ~last'.byId => (map' = map /\ last'.writes = << >>) )
        /\ ( /\ last.op = "check" /\ last.p = p /\ last.err = ""
             /\ (last.use_cache \/ last.force)
             /\ Did("check") /\ last'.p = p /\ last'.use_cache /\ ~last'.force )
           => ( /\ last'.err = "" /\ last'.ret = last.ret
                /\ p \notin last'.checks )
    ]_vars

\* C19 witness: a check(use_cache) of an addon passed as object found its
\* record under another hash, asked the lib_manager and recorded the verdict
C19_Witness ==
    /\ last.op = "check" /\ last.use_cache /\ ~last.force /\ ~last.byId
    /\ last.err = "" /\ last.pre = "stale"
    /\ last.p \in last.checks
    /\ Valid(map, last.p) /\ EntryOf(map, last.p).satisfied = last.ret

\* C20: when satisfy_dependencies(a) returns, a's record is satisfied under
\* the hash of a's current list, whatever it was before and whatever the
\* lib_manager would say after the installation; the lib_manager is not
\* asked about a, except by the discovery of an id lookup that meets a
\* without a record; the call returns the sequence install_libraries
\* returned; a check(use_cache) that follows returns True without asking
\* the lib_manager.
C20_SatisfyRecordsTrue ==
    [][\A p \in Paths :
        /\ ( Did("satisfy") /\ last'.p = p /\ last'.err = "" )
           => ( /\ Valid(map', p)
                /\ EntryOf(map', p).satisfied
                /\ p \in last'.checks => (last'.byId /\ ~EntryOf(map, p).present)
                /\ last'.seq = Listed(depends[p], installed' \ installed) )
        /\ ( /\ last.op = "satisfy" /\ last.p = p /\ last.err = ""
             /\ Did("check") /\ last'.p = p /\ last'.use_cache /\ ~last'.force )
           => ( /\ last'.err = "" /\ last'.ret
                /\ p \notin last'.checks )
    ]_vars

\* C20 witness: satisfy_dependencies returned after an installation that
\* left a library of the list missing, and the record that was unsatisfied
\* is now satisfied
C20_Witness ==
    /\ last.op = "satisfy" /\ last.err = "" /\ last.pre = "unsatisfied"
    /\ last.p \notin last.checks
    /\ ~lib_check(depends[last.p])
    /\ Valid(map, last.p) /\ EntryOf(map, last.p).satisfied

\* --------------------------------------------------------- claims: search

\* C24: a case-sensitive query yields exactly the addons that match at least
\* one supplied criterion: the author equals an element of authors, the name
\* or the description occurs in the addon's, the enabled flag equals the
\* stored one; a criterion that is not supplied matches nothing, so a query
\* without criteria yields nothing.
C24_QueryOr ==
    [][(last'.op = "query" /\ last'.err = "") =>
        LET c == last'.crit
        IN  last'.yielded =
              {p \in Paths :
                 \/ (c.author # Null /\ Contains(meta_attrs[p].authors, c.author))
                 \/ (c.name # Null /\ Substring(c.name.ch, meta_attrs[p].name))
                 \/ (c.description # Null
                       /\ Substring(c.description.ch, meta_attrs[p].description))
                 \/ (c.enabled.some
                       /\ c.enabled.val = get_stored_addon(map', meta_id[p]).enabled)}]_vars

\* C40: a query with case_insensitivity=True yields every addon for which
\* the supplied author equals one of the authors up to letter case, or the
\* supplied name or description occurs in the addon's up to letter case,
\* whatever the case of the argument.
C40_QueryIgnoresCase ==
    [][(last'.op = "query" /\ last'.crit.ci /\ last'.err = "") =>
        LET c == last'.crit
        IN  \A p \in Paths :
              ( \/ (c.author # Null
                      /\ \E i \in 1..Len(meta_attrs[p].authors) :
                           lower(meta_attrs[p].authors[i].ch) = lower(c.author.ch))
                \/ (c.name # Null
                      /\ Substring(lower(c.name.ch), lower(meta_attrs[p].name)))
                \/ (c.description # Null
                      /\ Substring(lower(c.description.ch),
                                   lower(meta_attrs[p].description))) )
              => p \in last'.yielded]_vars

\* ------------------------------------------------------- claims: metadata

\* C21: read(); save(); read() ends with the data tree of the first read,
\* both the save and the second read succeed, a read writes the file exactly
\* when an optional field was missing from it, and the read after the save
\* writes nothing.
C21_MetaRoundTrip ==
    [][/\ (last.op = "meta_read" /\ last.err = "" /\ last'.op = "meta_save")
          => last'.err = ""
       /\ (last.op = "meta_save" /\ last.chained /\ last'.op = "meta_read")
          => (last'.err = "" /\ m_data' = m_data /\ ~last'.wrote)
       /\ (last'.op = "meta_read" /\ last'.err = "")
          => (last'.wrote <=> \E f \in DefaultFields : m_file.f[f] = Absent)
    ]_vars

\* C22: a read of a file that is not a JSON object, lacks a required field
\* or holds a value of the wrong type for a field of the schema raises
\* AddonMetaInvalid; after a successful read id, module and name are strings
\* and authors is a list.
C22_MetaSchema ==
    [][last'.op = "meta_read" =>
        /\ ( \/ m_file.top # "object"
             \/ \E f \in RequiredFields : m_file.f[f] = Absent
             \/ \E f \in MetaFields :
                    m_file.f[f] # Absent /\ ~isinstance(m_file.f[f], field_types[f]) )
           => last'.err = "AddonMetaInvalid"
        /\ last'.err = ""
           => ( /\ \A f \in {"id", "module", "name"} : isinstance(m_data'[f], "str")
                /\ isinstance(m_data'["authors"], "list") )
    ]_vars

\* C23: a read of a file whose depends or authors list holds an element that
\* is not a string raises AddonMetaInvalid; after a successful read every
\* element of depends and authors is a string.
C23_MetaListElements ==
    [][last'.op = "meta_read" =>
        /\ ( /\ m_file.top = "object"
             /\ \E f \in {"depends", "authors"} :
                    /\ isinstance(m_file.f[f], "list")
                    /\ \E i \in 1..Len(m_file.f[f].items) :
                            ~isinstance(m_file.f[f].items[i], "str") )
           => last'.err = "AddonMetaInvalid"
        /\ last'.err = ""
           => \A f \in {"depends", "authors"} :
                isinstance(m_data'[f], "list")
                => \A i \in 1..Len(m_data'[f].items) : isinstance(m_data'[f].items[i], "str")
    ]_vars

\* ------------------------------------------------------ claims: interfaces

\* C14: no two distinct ModuleInterface objects of the same addon are
\* loaded at the same time.
C14_OneLiveInterface ==
    \A i \in IfaceIds, j \in IfaceIds :
        ( /\ i # j /\ ifaces[i].made /\ ifaces[j].made
          /\ ifaces[i].addon = ifaces[j].addon )
        => ~(ifaces[i].module # 0 /\ ifaces[j].module # 0)

C17_LoadOnce ==
    [][last'.op = "load" =>
        LET i == last'.i
        IN  /\ ifaces[i].module # 0
               => ( /\ last'.err = "AddonSystemException" /\ last'.on_load = 0
                    /\ ifaces'[i] = ifaces[i]
                    /\ UNCHANGED <<ledger, a_module>> )
            /\ ifaces[i].module = 0
               => ( /\ last'.on_load = (IF last'.err = "" THEN 1 ELSE 0)
                    /\ last'.on_load = 1
                       => ( /\ last'.handle # 0
                            /\ a_module'[last'.p] = last'.handle
                            /\ ifaces'[i].module = last'.handle )
                    /\ last'.on_load = 0
                       => ( /\ ifaces'[i] = ifaces[i] /\ ledger' = ledger ) )
    ]_vars

\* C17 witness: a load was refused on an interface whose on_load had
\* registered a used module
C17_Witness ==
    /\ last.op = "load" /\ last.err = "AddonSystemException" /\ last.on_load = 0
    /\ ifaces[last.i].module # 0
    /\ ifaces[last.i].used # << >>

\* the other addons that have module h registered in the ledger and hold a
\* loaded interface
OtherOwners(h, p) ==
    {q \in Paths \ {p} :
        /\ list_has(ledger[h], q)
        /\ \E j \in IfaceIds : ifaces[j].made /\ ifaces[j].addon = q /\ ifaces[j].module # 0}

\* C18: a successful interface unload purges a used module only when no
\* other addon with a loaded interface has it registered; otherwise the
\* module stays in the loader cache and in the ledger under that addon,
\* whatever on_load returned.
C18_LastOwnerPurge ==
    [][(last'.op = "unload" /\ last'.err = "" /\ last'.on_unload) =>
        LET f == ifaces[last'.i]
        IN  \A n \in 1..Len(f.used) :
                LET h == f.used[n]
                IN  IF OtherOwners(h, f.addon) = {}
                    THEN sys_modules'[Helper] # h
                    ELSE /\ sys_modules'[Helper] = h
                         /\ \A q \in OtherOwners(h, f.addon) : list_has(ledger'[h], q)
    ]_vars

====
